---- MODULE Spec2Model ----
(***************************************************************************)
(* The FUSE-over-virtio transport core of the virtio-fs driver             *)
(* (kernel/comps/virtio/src/device/filesystem).                            *)
(*                                                                         *)
(* request_buffers[0] is modelled byte for byte: every operation of        *)
(* AnyFuseDevice writes its request image at offset 0 of that region, the  *)
(* device writes its reply into the writable slice it was handed, and      *)
(* handle_recv_irq reads the region back from offset 0.  Structures are    *)
(* encoded little-endian from their #[repr(C)] field lists.                *)
(***************************************************************************)
EXTENDS Integers, Sequences, FiniteSets, TLC

(***************************************************************************)
(* Bounds of the model.                                                    *)
(***************************************************************************)
\* calls a run of Spec issues (callers are concurrent)
MaxCalls == 2
\* calls a run of SpecSeq issues (one outstanding request at a time)
MaxSeqCalls == 1
\* longest name/data argument of SpecPure, in bytes
MaxStrLen == 17
\* longest string of SpecPure drawn over the whole alphabet
MaxMixedLen == 3
\* most operations called in SpecLock, statement by statement on two CPUs
MaxLockCalls == 2
\* most entries of a directory listing the device replies to readdir with
MaxDirents == 3
\* bytes of request_buffers[0] kept in the state; the bytes past them are zero
BufWindow == 320

(***************************************************************************)
(* Bytes and #[repr(C)] Pod structures.                                    *)
(***************************************************************************)
RECURSIVE LE(_, _)
\* the w little-endian bytes of the integer v (two's complement when v < 0)
LE(v, w) == IF w = 0 THEN <<>> ELSE <<v % 256>> \o LE(v \div 256, w - 1)

Zeros(n) == [i \in 1..n |-> 0]

RECURSIVE Sum(_)
Sum(s) == IF s = <<>> THEN 0 ELSE Head(s) + Sum(Tail(s))

\* size_of::<T>() of a structure given by its field widths
size_of(T) == Sum(T)

RECURSIVE as_bytes(_, _)
\* Pod::as_bytes of the structure with field widths T and field values v
as_bytes(T, v) ==
    IF T = <<>> THEN <<>> ELSE LE(Head(v), Head(T)) \o as_bytes(Tail(T), Tail(v))

FuseInHeader == <<4, 4, 8, 8, 4, 4, 4, 2, 2>>
FuseOutHeader == <<4, 4, 8>>
FuseDirent == <<8, 8, 4, 4>>
FuseAttr == <<8, 8, 8, 8, 8, 8, 4, 4, 4, 4, 4, 4, 4, 4, 4, 4>>
FuseKstatfs == <<8, 8, 8, 8, 8, 4, 4, 4, 4, 4, 4, 4, 4, 4, 4>>
FuseFileLock == <<8, 8, 4, 4>>
\* the entry reply of protocol minor < 9 (FUSE_COMPAT_ENTRY_OUT_SIZE = 120
\* bytes): the attributes without blksize and flags
FuseEntryOut_compat == <<8, 8, 8, 8, 4, 4>> \o SubSeq(FuseAttr, 1, Len(FuseAttr) - 2)
FuseEntryOut == <<8, 8, 8, 8, 4, 4>> \o FuseAttr
FuseForgetIn == <<8>>
FuseForgetOne == <<8, 8>>
FuseBatchForgetIn == <<4, 4>>
FuseGetattrIn == <<4, 4, 8>>
FuseAttrOut == <<8, 4, 4>> \o FuseAttr
FuseMknodIn == <<4, 4, 4, 4>>
FuseMkdirIn == <<4, 4>>
FuseRenameIn == <<8>>
FuseRename2In == <<8, 4, 4>>
FuseLinkIn == <<8>>
FuseSetattrIn == <<4, 4, 8, 8, 8, 8, 8, 8, 4, 4, 4, 4, 4, 4, 4, 4>>
FuseOpenIn == <<4, 4>>
FuseCreateIn == <<4, 4, 4, 4>>
FuseOpenOut == <<8, 4, 4>>
FuseReleaseIn == <<8, 4, 4, 8>>
FuseFlushIn == <<8, 4, 4, 8>>
FuseReadIn == <<8, 8, 4, 4, 8, 4, 4>>
FuseWriteIn == <<8, 8, 4, 4, 8, 4, 4>>
FuseWriteOut == <<4, 4>>
FuseStatfsOut == FuseKstatfs
FuseFsyncIn == <<8, 4, 4>>
FuseGetxattrIn == <<4, 4>>
FuseGetxattrOut == <<4, 4>>
FuseLkOut == FuseFileLock
FuseLkIn == <<8, 8>> \o FuseFileLock \o <<4, 4>>
FuseAccessIn == <<4, 4>>
FuseInitIn == <<4, 4, 4, 4, 4>> \o [i \in 1..11 |-> 4]
FuseInitOut == <<4, 4, 4, 4, 2, 2, 4, 4, 2, 2, 4, 4>> \o [i \in 1..6 |-> 4]
FuseInterruptIn == <<8>>
FuseBmapIn == <<8, 4, 4>>
FuseBmapOut == <<8>>
FuseIoctlIn == <<8, 4, 4, 8, 4, 4>>
FuseIoctlOut == <<4, 4, 4, 4>>
FusePollIn == <<8, 8, 4, 4>>
FusePollOut == <<4, 4>>
FuseFallocateIn == <<8, 8, 8, 4, 4>>
FuseLseekIn == <<8, 8, 4, 4>>
FuseLseekOut == <<8>>

\* enum FuseOpcode
FuseOpcode ==
    [FuseLookup |-> 1, FuseForget |-> 2, FuseGetattr |-> 3, FuseSetattr |-> 4,
     FuseReadlink |-> 5, FuseSymlink |-> 6, FuseMknod |-> 8, FuseMkdir |-> 9,
     FuseUnlink |-> 10, FuseRmdir |-> 11, FuseRename |-> 12, FuseLink |-> 13,
     FuseOpen |-> 14, FuseRead |-> 15, FuseWrite |-> 16, FuseStatfs |-> 17,
     FuseRelease |-> 18, FuseFsync |-> 20, FuseSetxattr |-> 21,
     FuseGetxattr |-> 22, FuseListxattr |-> 23, FuseRemovexattr |-> 24,
     FuseFlush |-> 25, FuseInit |-> 26, FuseOpendir |-> 27, FuseReaddir |-> 28,
     FuseReleasedir |-> 29, FuseFsyncdir |-> 30, FuseGetlk |-> 31,
     FuseSetlk |-> 32, FuseSetlkw |-> 33, FuseAccess |-> 34, FuseCreate |-> 35,
     FuseInterrupt |-> 36, FuseBmap |-> 37, FuseDestroy |-> 38,
     FuseIoctl |-> 39, FusePoll |-> 40, FuseNotifyReply |-> 41,
     FuseBatchForget |-> 42, FuseFallocate |-> 43, FuseReaddirplus |-> 44,
     FuseRename2 |-> 45, FuseLseek |-> 46, FuseCopyFileRange |-> 47,
     FuseSetupmapping |-> 48, FuseRemovemapping |-> 49, FuseSyncfs |-> 50,
     FuseTmpfile |-> 51, FuseStatx |-> 52, CuseInit |-> 4096,
     CuseInitBswapReserved |-> 1048576, FuseInitBswapReserved |-> 436207616]

FUSE_KERNEL_VERSION == 7
FUSE_KERNEL_MINOR_VERSION == 40
\* 1 << 30
FUSE_INIT_EXT == 1073741824
\* 1 << 0
FUSE_RELEASE_FLUSH == 1
\* 1 << 1
FUSE_WRITE_LOCKOWNER == 2

(***************************************************************************)
(* Strings.                                                                *)
(***************************************************************************)
\* the number of continuation bytes the lead byte b announces, -1 for a byte
\* that cannot start a character
utf8_tail(b) ==
    IF b < 128 THEN 0
    ELSE IF b \in 194..223 THEN 1
    ELSE IF b \in 224..239 THEN 2
    ELSE IF b \in 240..244 THEN 3
    ELSE -1

utf8_cont(b) == b \in 128..191

\* core::str::from_utf8 accepts s: s does not start inside a character, and
\* every byte that is not a continuation byte starts a well-formed character
\* that ends where the next one starts
Utf8Valid(s) ==
    /\ Len(s) > 0 => ~utf8_cont(s[1])
    /\ \A i \in 1..Len(s) :
          utf8_cont(s[i]) \/
          LET b == s[i]
              k == utf8_tail(b)
          IN  /\ k >= 0
              /\ i + k <= Len(s)
              /\ \A j \in 1..k : utf8_cont(s[i + j])
              /\ (i + k + 1 <= Len(s) => ~utf8_cont(s[i + k + 1]))
              /\ (b = 224 => s[i + 1] >= 160)
              /\ (b = 237 => s[i + 1] <= 159)
              /\ (b = 240 => s[i + 1] >= 144)
              /\ (b = 244 => s[i + 1] <= 143)

\* String::from_utf8(v) is Ok
from_utf8(v) == Utf8Valid(v)

\* name_pad_len without the outer "& 0x7": a name that already fills its
\* last 8-byte unit gets 8 more bytes
name_pad_len_unmasked(n, repr_c) ==
    LET name_len == n + (IF repr_c THEN 1 ELSE 0)
    IN  name_len + (8 - (name_len % 8))

\* name.len() as u32 + if repr_c { 1 } else { 0 }, then rounded up to 8; the
\* lengths here stay far below 2^32, so the u32 arithmetic never wraps
name_pad_len(n, repr_c) ==
    LET name_len == n + (IF repr_c THEN 1 ELSE 0)
    IN  name_len + ((8 - (name_len % 8)) % 8)

\* fuse_rec_align: x rounded up to the next multiple of size_of::<u64>()
fuse_rec_align(x) == ((x + 8 - 1) \div 8) * 8

\* FUSE_NAME_OFFSET = size_of::<FuseDirent>(), written out because FuseDirent
\* is laid out further down
FUSE_NAME_OFFSET == 24

fuse_dirent_align(x) == fuse_rec_align(x)

\* fuse_dirent_size of an entry whose namelen, as usize, is namelen
fuse_dirent_size(namelen) == fuse_dirent_align(FUSE_NAME_OFFSET + namelen)

\* resize filling the new bytes with a copy of the last byte instead of zero
resize_repeat_last(v, new_len) ==
    [i \in 1..new_len |-> IF i <= Len(v) THEN v[i]
                          ELSE IF Len(v) = 0 THEN 1 ELSE v[Len(v)]]

\* Vec::resize(new_len, 0)
resize(v, new_len) ==
    [i \in 1..new_len |-> IF i <= Len(v) THEN v[i] ELSE 0]

fuse_pad_str(name, repr_c) == resize(name, name_pad_len(Len(name), repr_c))

\* the padding write() appends to its data
write_pad(data) == data \o Zeros((8 - (Len(data) % 8)) % 8)

(***************************************************************************)
(* The operations of AnyFuseDevice.  Each yields what the operation has    *)
(* built when it reaches add_dma_buf: the queue it locked, the header it   *)
(* filled in, concat_req (the bytes written at offset 0 of                 *)
(* request_buffers[0]), len_in, whether it consults should_notify, and     *)
(* whether every String::from_utf8(..).unwrap() on the way succeeded.      *)
(***************************************************************************)
headerout_buffer == Zeros(size_of(FuseOutHeader))

Req(queue, opcode, unique, nodeid, len, datain, dataout, len_in, notifies, strs) ==
    [queue |-> queue,
     headerin |-> [len |-> len, opcode |-> opcode, unique |-> unique, nodeid |-> nodeid],
     concat_req |->
         as_bytes(FuseInHeader, <<len, opcode, unique, nodeid, 0, 0, 0, 0, 0>>)
             \o datain \o dataout,
     len_in |-> len_in,
     notifies |-> notifies,
     utf8 |-> \A s \in strs : from_utf8(s)]

\* init locking the high-priority queue instead of request queue 0
init_on_hiprio(a) ==
    Req("hiprio", FuseOpcode.FuseInit, 0, 0,
        size_of(FuseInitIn) + size_of(FuseInHeader),
        as_bytes(FuseInitIn,
                 <<FUSE_KERNEL_VERSION, FUSE_KERNEL_MINOR_VERSION, 0,
                   FUSE_INIT_EXT, 0>> \o Zeros(11)),
        headerout_buffer \o Zeros(256),
        size_of(FuseInitIn) + size_of(FuseInHeader), TRUE, {})

init(a) ==
    Req("request", FuseOpcode.FuseInit, 0, 0,
        size_of(FuseInitIn) + size_of(FuseInHeader),
        as_bytes(FuseInitIn,
                 <<FUSE_KERNEL_VERSION, FUSE_KERNEL_MINOR_VERSION, 0,
                   FUSE_INIT_EXT, 0>> \o Zeros(11)),
        headerout_buffer \o Zeros(256),
        size_of(FuseInitIn) + size_of(FuseInHeader), TRUE, {})

opendir(a) ==
    Req("request", FuseOpcode.FuseOpendir, 0, a.nodeid,
        size_of(FuseOpenIn) + size_of(FuseInHeader),
        as_bytes(FuseOpenIn, <<a.flags, 0>>),
        headerout_buffer \o Zeros(size_of(FuseOpenOut)),
        size_of(FuseOpenIn) + size_of(FuseInHeader), TRUE, {})

readdir(a) ==
    Req("request", FuseOpcode.FuseReaddir, 0, a.nodeid,
        size_of(FuseReadIn) + size_of(FuseInHeader),
        as_bytes(FuseReadIn, <<a.fh, a.offset, a.size, 0, 0, 0, 0>>),
        headerout_buffer \o Zeros(1024),
        size_of(FuseReadIn) + size_of(FuseInHeader), TRUE, {})

read(a) ==
    Req("request", FuseOpcode.FuseRead, 0, a.nodeid,
        size_of(FuseReadIn) + size_of(FuseInHeader),
        as_bytes(FuseReadIn, <<a.fh, a.offset, a.size, 0, 0, 0, 0>>),
        headerout_buffer \o Zeros(1024),
        size_of(FuseReadIn) + size_of(FuseInHeader), TRUE, {})

open(a) ==
    Req("request", FuseOpcode.FuseOpen, 0, a.nodeid,
        size_of(FuseOpenIn) + size_of(FuseInHeader),
        as_bytes(FuseOpenIn, <<a.flags, 0>>),
        headerout_buffer \o Zeros(size_of(FuseOpenOut)),
        size_of(FuseOpenIn) + size_of(FuseInHeader), TRUE, {})

flush(a) ==
    Req("request", FuseOpcode.FuseFlush, 0, a.nodeid,
        size_of(FuseFlushIn) + size_of(FuseInHeader),
        as_bytes(FuseFlushIn, <<a.fh, 0, 0, a.lock_owner>>),
        headerout_buffer,
        size_of(FuseFlushIn) + size_of(FuseInHeader), TRUE, {})

releasedir(a) ==
    Req("request", FuseOpcode.FuseReleasedir, 0, a.nodeid,
        size_of(FuseReleaseIn) + size_of(FuseInHeader),
        as_bytes(FuseReleaseIn, <<a.fh, a.flags, 0, 0>>),
        headerout_buffer,
        size_of(FuseReleaseIn) + size_of(FuseInHeader), TRUE, {})

getattr(a) ==
    Req("request", FuseOpcode.FuseGetattr, 0, a.nodeid,
        size_of(FuseGetattrIn) + size_of(FuseInHeader),
        as_bytes(FuseGetattrIn, <<a.flags, a.dummy, a.fh>>),
        headerout_buffer \o Zeros(size_of(FuseAttrOut)),
        size_of(FuseGetattrIn) + size_of(FuseInHeader), TRUE, {})

setattr(a) ==
    Req("request", FuseOpcode.FuseSetattr, 0, a.nodeid,
        size_of(FuseInHeader) + size_of(FuseSetattrIn),
        as_bytes(FuseSetattrIn,
                 <<a.valid, 0, a.fh, a.size, a.lock_owner, a.atime, a.mtime,
                   a.ctime, a.atimensec, a.mtimensec, a.ctimensec, a.mode, 0,
                   a.uid, a.gid, 0>>),
        headerout_buffer \o Zeros(size_of(FuseAttrOut)),
        size_of(FuseSetattrIn) + size_of(FuseInHeader), TRUE, {})

\* lookup padding the name without its terminating NUL
lookup_unterminated(a) ==
    LET prepared_name == fuse_pad_str(a.name, FALSE)
    IN  Req("request", FuseOpcode.FuseLookup, 0, a.nodeid,
            size_of(FuseInHeader) + Len(prepared_name),
            prepared_name,
            headerout_buffer \o Zeros(size_of(FuseEntryOut)),
            Len(prepared_name) + size_of(FuseInHeader), TRUE, {a.name})

lookup(a) ==
    LET prepared_name == fuse_pad_str(a.name, TRUE)
    IN  Req("request", FuseOpcode.FuseLookup, 0, a.nodeid,
            size_of(FuseInHeader) + Len(prepared_name),
            prepared_name,
            headerout_buffer \o Zeros(size_of(FuseEntryOut)),
            Len(prepared_name) + size_of(FuseInHeader), TRUE, {a.name})

release(a) ==
    Req("request", FuseOpcode.FuseRelease, 0, a.nodeid,
        size_of(FuseReleaseIn) + size_of(FuseInHeader),
        as_bytes(FuseReleaseIn,
                 <<a.fh, a.flags, IF a.flush THEN FUSE_RELEASE_FLUSH ELSE 0,
                   a.lock_owner>>),
        headerout_buffer,
        size_of(FuseReleaseIn) + size_of(FuseInHeader), TRUE, {})

access(a) ==
    Req("request", FuseOpcode.FuseAccess, 0, a.nodeid,
        size_of(FuseAccessIn) + size_of(FuseInHeader),
        as_bytes(FuseAccessIn, <<a.mask, 0>>),
        headerout_buffer \o Zeros(size_of(FuseAttrOut)),
        size_of(FuseAccessIn) + size_of(FuseInHeader), TRUE, {})

statfs(a) ==
    Req("request", FuseOpcode.FuseStatfs, 0, a.nodeid,
        size_of(FuseInHeader),
        <<>>,
        headerout_buffer \o Zeros(size_of(FuseStatfsOut)),
        size_of(FuseInHeader), TRUE, {})

interrupt(a) ==
    Req("hiprio", FuseOpcode.FuseInterrupt, a.unique, 0,
        size_of(FuseInterruptIn) + size_of(FuseInHeader),
        as_bytes(FuseInterruptIn, <<a.unique>>),
        headerout_buffer,
        size_of(FuseInterruptIn) + size_of(FuseInHeader), TRUE, {})

mkdir(a) ==
    LET prepared_name == fuse_pad_str(a.name, TRUE)
    IN  Req("request", FuseOpcode.FuseMkdir, 0, a.nodeid,
            size_of(FuseMkdirIn) + Len(prepared_name) + size_of(FuseInHeader),
            as_bytes(FuseMkdirIn, <<a.mode, a.umask>>) \o prepared_name,
            headerout_buffer \o Zeros(size_of(FuseEntryOut)),
            Len(prepared_name) + size_of(FuseMkdirIn) + size_of(FuseInHeader),
            TRUE, {a.name})

create(a) ==
    LET prepared_name == fuse_pad_str(a.name, TRUE)
    IN  Req("request", FuseOpcode.FuseCreate, 0, a.nodeid,
            size_of(FuseCreateIn) + Len(prepared_name) + size_of(FuseInHeader),
            as_bytes(FuseCreateIn, <<a.flags, a.mode, a.umask, 0>>) \o prepared_name,
            headerout_buffer \o Zeros(size_of(FuseEntryOut)),
            Len(prepared_name) + size_of(FuseCreateIn) + size_of(FuseInHeader),
            TRUE, {a.name})

destroy(a) ==
    Req("request", FuseOpcode.FuseDestroy, 0, 0,
        size_of(FuseInHeader),
        <<>>,
        headerout_buffer,
        size_of(FuseInHeader), TRUE, {})

\* rename padding the two names one by one
rename_split(a) ==
    LET prepared_names == fuse_pad_str(a.name, TRUE) \o fuse_pad_str(a.newname, TRUE)
    IN  Req("request", FuseOpcode.FuseRename, 0, a.nodeid,
            size_of(FuseRenameIn) + Len(prepared_names) + size_of(FuseInHeader),
            as_bytes(FuseRenameIn, <<a.newdir>>) \o prepared_names,
            headerout_buffer \o Zeros(size_of(FuseEntryOut)),
            Len(prepared_names) + size_of(FuseRenameIn) + size_of(FuseInHeader),
            TRUE, {a.name, a.newname})

rename(a) ==
    LET names == a.name \o <<0>> \o a.newname
        prepared_names == fuse_pad_str(names, TRUE)
    IN  Req("request", FuseOpcode.FuseRename, 0, a.nodeid,
            size_of(FuseRenameIn) + Len(prepared_names) + size_of(FuseInHeader),
            as_bytes(FuseRenameIn, <<a.newdir>>) \o prepared_names,
            headerout_buffer \o Zeros(size_of(FuseEntryOut)),
            Len(prepared_names) + size_of(FuseRenameIn) + size_of(FuseInHeader),
            TRUE, {a.name, a.newname})

rename2(a) ==
    LET names == a.name \o <<0>> \o a.newname
        prepared_names == fuse_pad_str(names, TRUE)
    IN  Req("request", FuseOpcode.FuseRename2, 0, a.nodeid,
            size_of(FuseRename2In) + Len(prepared_names) + size_of(FuseInHeader),
            as_bytes(FuseRename2In, <<a.newdir, a.flags, 0>>) \o prepared_names,
            headerout_buffer \o Zeros(size_of(FuseEntryOut)),
            Len(prepared_names) + size_of(FuseRename2In) + size_of(FuseInHeader),
            FALSE, {a.name, a.newname})

write(a) ==
    LET data == write_pad(a.data)
    IN  Req("request", FuseOpcode.FuseWrite, 0, a.nodeid,
            size_of(FuseInHeader) + size_of(FuseWriteIn) + Len(data),
            as_bytes(FuseWriteIn,
                     <<a.fh, a.offset, Len(data), FUSE_WRITE_LOCKOWNER, 0, 0, 0>>)
                \o data,
            headerout_buffer \o Zeros(size_of(FuseWriteOut)),
            size_of(FuseWriteIn) + size_of(FuseInHeader) + Len(data), TRUE, {})

forget(a) ==
    Req("hiprio", FuseOpcode.FuseForget, 0, a.nodeid,
        size_of(FuseForgetIn) + size_of(FuseInHeader),
        as_bytes(FuseForgetIn, <<a.nlookup>>),
        headerout_buffer,
        size_of(FuseForgetIn) + size_of(FuseInHeader), TRUE, {})

RECURSIVE forgetin_bytes(_)
\* the FuseForgetOne entries of batch_forget, one after the other
forgetin_bytes(forget_list) ==
    IF forget_list = <<>> THEN <<>>
    ELSE as_bytes(FuseForgetOne, Head(forget_list)) \o forgetin_bytes(Tail(forget_list))

batch_forget(a) ==
    Req("hiprio", FuseOpcode.FuseBatchForget, 0, 0,
        size_of(FuseBatchForgetIn) + size_of(FuseInHeader),
        forgetin_bytes(a.forget_list),
        headerout_buffer,
        Len(a.forget_list) * size_of(FuseForgetOne) + size_of(FuseInHeader),
        TRUE, {})

link(a) ==
    LET prepared_name == fuse_pad_str(a.name, TRUE)
    IN  Req("request", FuseOpcode.FuseLink, 0, a.nodeid,
            size_of(FuseLinkIn) + Len(prepared_name) + size_of(FuseInHeader),
            as_bytes(FuseLinkIn, <<a.oldnodeid>>) \o prepared_name,
            headerout_buffer \o Zeros(size_of(FuseEntryOut)),
            Len(prepared_name) + size_of(FuseLinkIn) + size_of(FuseInHeader),
            TRUE, {a.name})

unlink(a) ==
    LET prepared_name == fuse_pad_str(a.name, TRUE)
    IN  Req("request", FuseOpcode.FuseUnlink, 0, a.nodeid,
            Len(prepared_name) + size_of(FuseInHeader),
            prepared_name,
            headerout_buffer \o Zeros(size_of(FuseEntryOut)),
            Len(prepared_name) + size_of(FuseInHeader), TRUE, {a.name})

bmap(a) ==
    Req("request", FuseOpcode.FuseBmap, 0, a.nodeid,
        size_of(FuseBmapIn) + size_of(FuseInHeader),
        as_bytes(FuseBmapIn, <<a.index, a.blocksize, 0>>),
        headerout_buffer \o Zeros(size_of(FuseBmapOut)),
        size_of(FuseBmapIn) + size_of(FuseInHeader), TRUE, {})

fallocate(a) ==
    Req("request", FuseOpcode.FuseFallocate, 0, a.nodeid,
        size_of(FuseFallocateIn) + size_of(FuseInHeader),
        as_bytes(FuseFallocateIn, <<a.fh, a.offset, a.length, a.mode, 0>>),
        headerout_buffer,
        size_of(FuseFallocateIn) + size_of(FuseInHeader), TRUE, {})

fsync(a) ==
    Req("request", FuseOpcode.FuseFsyncdir, 0, a.nodeid,
        size_of(FuseInHeader) + size_of(FuseFsyncIn),
        as_bytes(FuseFsyncIn, <<a.fh, a.datasync, 0>>),
        headerout_buffer,
        size_of(FuseFsyncIn) + size_of(FuseInHeader), TRUE, {})

fsyncdir(a) ==
    Req("request", FuseOpcode.FuseFsyncdir, 0, a.nodeid,
        size_of(FuseInHeader),
        <<>>,
        headerout_buffer,
        size_of(FuseInHeader), TRUE, {})

getlk(a) ==
    Req("request", FuseOpcode.FuseGetlk, 0, a.nodeid,
        size_of(FuseInHeader),
        <<>>,
        headerout_buffer \o Zeros(size_of(FuseLkOut)),
        size_of(FuseInHeader), TRUE, {})

getxattr(a) ==
    LET prepared_name == fuse_pad_str(a.name, TRUE)
    IN  Req("request", FuseOpcode.FuseGetxattr, 0, a.nodeid,
            size_of(FuseGetxattrIn) + Len(prepared_name) + size_of(FuseInHeader),
            as_bytes(FuseGetxattrIn, <<a.size, 0>>) \o prepared_name,
            headerout_buffer \o Zeros(size_of(FuseGetxattrOut)),
            Len(prepared_name) + size_of(FuseGetxattrIn) + size_of(FuseInHeader),
            TRUE, {a.name})

ioctl(a) ==
    Req("request", FuseOpcode.FuseIoctl, 0, a.nodeid,
        size_of(FuseIoctlIn) + Len(a.data) + size_of(FuseInHeader),
        as_bytes(FuseIoctlIn, <<a.fh, a.flags, a.cmd, 0, Len(a.data), 0>>) \o a.data,
        headerout_buffer \o Zeros(size_of(FuseIoctlOut)),
        Len(a.data) + size_of(FuseIoctlIn) + size_of(FuseInHeader), TRUE, {})

listxattr(a) ==
    Req("request", FuseOpcode.FuseListxattr, 0, a.nodeid,
        size_of(FuseInHeader),
        <<>>,
        headerout_buffer \o Zeros(size_of(FuseGetxattrOut)),
        size_of(FuseInHeader), TRUE, {})

lseek(a) ==
    Req("request", FuseOpcode.FuseLseek, 0, a.nodeid,
        size_of(FuseLseekIn) + size_of(FuseInHeader),
        as_bytes(FuseLseekIn, <<a.fh, a.offset, a.whence, 0>>),
        headerout_buffer \o Zeros(size_of(FuseLseekOut)),
        size_of(FuseLseekIn) + size_of(FuseInHeader), TRUE, {})

mknod(a) ==
    LET prepared_name == fuse_pad_str(a.name, TRUE)
    IN  Req("request", FuseOpcode.FuseMknod, 0, a.nodeid,
            size_of(FuseMknodIn) + Len(prepared_name) + size_of(FuseInHeader),
            as_bytes(FuseMknodIn, <<a.mode, a.rdev, 0, 0>>) \o prepared_name,
            headerout_buffer \o Zeros(size_of(FuseEntryOut)),
            Len(prepared_name) + size_of(FuseMknodIn) + size_of(FuseInHeader),
            TRUE, {a.name})

poll(a) ==
    Req("request", FuseOpcode.FusePoll, 0, a.nodeid,
        size_of(FusePollIn) + size_of(FuseInHeader),
        as_bytes(FusePollIn, <<a.fh, 0, 0, a.events>>),
        headerout_buffer \o Zeros(size_of(FusePollOut)),
        size_of(FusePollIn) + size_of(FuseInHeader), TRUE, {})

readlink(a) ==
    Req("request", FuseOpcode.FuseReadlink, 0, a.nodeid,
        size_of(FuseInHeader),
        <<>>,
        headerout_buffer,
        size_of(FuseInHeader), TRUE, {})

removexattr(a) ==
    LET prepared_name == fuse_pad_str(a.name, TRUE)
    IN  Req("request", FuseOpcode.FuseRemovexattr, 0, a.nodeid,
            Len(prepared_name) + size_of(FuseInHeader),
            prepared_name,
            headerout_buffer,
            Len(prepared_name) + size_of(FuseInHeader), TRUE, {a.name})

rmdir(a) ==
    LET prepared_name == fuse_pad_str(a.name, TRUE)
    IN  Req("request", FuseOpcode.FuseRmdir, 0, a.nodeid,
            Len(prepared_name) + size_of(FuseInHeader),
            prepared_name,
            headerout_buffer \o Zeros(size_of(FuseEntryOut)),
            Len(prepared_name) + size_of(FuseInHeader), TRUE, {a.name})

setlk(a) ==
    Req("request", FuseOpcode.FuseSetlk, 0, a.nodeid,
        size_of(FuseInHeader),
        <<>>,
        headerout_buffer,
        size_of(FuseInHeader), TRUE, {})

setlkw(a) ==
    Req("request", FuseOpcode.FuseSetlkw, 0, a.nodeid,
        size_of(FuseInHeader),
        as_bytes(FuseFileLock, <<a.start, a.end, a.typ, a.pid>>),
        headerout_buffer,
        size_of(FuseInHeader), TRUE, {})

symlink(a) ==
    LET prepared_name == fuse_pad_str(a.name, TRUE)
        prepared_link == fuse_pad_str(a.newname, TRUE)
    IN  Req("request", FuseOpcode.FuseSymlink, 0, a.nodeid,
            Len(prepared_name) + Len(prepared_link) + size_of(FuseInHeader),
            prepared_name \o prepared_link,
            headerout_buffer \o Zeros(size_of(FuseEntryOut)),
            Len(prepared_name) + Len(prepared_link) + size_of(FuseInHeader),
            TRUE, {a.name, a.newname})

(***************************************************************************)
(* Operation names, argument values and dispatch.                          *)
(***************************************************************************)
AllOps ==
    {"init", "opendir", "readdir", "read", "open", "flush", "releasedir",
     "getattr", "setattr", "lookup", "release", "access", "statfs",
     "interrupt", "mkdir", "create", "destroy", "rename", "rename2", "write",
     "forget", "batch_forget", "link", "unlink", "bmap", "fallocate", "fsync",
     "fsyncdir", "getlk", "getxattr", "ioctl", "listxattr", "lseek", "mknod",
     "poll", "readlink", "removexattr", "rmdir", "setlk", "setlkw", "symlink"}

\* the operations the concurrent specification draws its calls from
CallOps == {"lookup", "open", "read", "bmap", "forget", "batch_forget"}

Op(op, a) ==
    CASE op = "init" -> init(a)
      [] op = "opendir" -> opendir(a)
      [] op = "readdir" -> readdir(a)
      [] op = "read" -> read(a)
      [] op = "open" -> open(a)
      [] op = "flush" -> flush(a)
      [] op = "releasedir" -> releasedir(a)
      [] op = "getattr" -> getattr(a)
      [] op = "setattr" -> setattr(a)
      [] op = "lookup" -> lookup(a)
      [] op = "release" -> release(a)
      [] op = "access" -> access(a)
      [] op = "statfs" -> statfs(a)
      [] op = "interrupt" -> interrupt(a)
      [] op = "mkdir" -> mkdir(a)
      [] op = "create" -> create(a)
      [] op = "destroy" -> destroy(a)
      [] op = "rename" -> rename(a)
      [] op = "rename2" -> rename2(a)
      [] op = "write" -> write(a)
      [] op = "forget" -> forget(a)
      [] op = "batch_forget" -> batch_forget(a)
      [] op = "link" -> link(a)
      [] op = "unlink" -> unlink(a)
      [] op = "bmap" -> bmap(a)
      [] op = "fallocate" -> fallocate(a)
      [] op = "fsync" -> fsync(a)
      [] op = "fsyncdir" -> fsyncdir(a)
      [] op = "getlk" -> getlk(a)
      [] op = "getxattr" -> getxattr(a)
      [] op = "ioctl" -> ioctl(a)
      [] op = "listxattr" -> listxattr(a)
      [] op = "lseek" -> lseek(a)
      [] op = "mknod" -> mknod(a)
      [] op = "poll" -> poll(a)
      [] op = "readlink" -> readlink(a)
      [] op = "removexattr" -> removexattr(a)
      [] op = "rmdir" -> rmdir(a)
      [] op = "setlk" -> setlk(a)
      [] op = "setlkw" -> setlkw(a)
      [] op = "symlink" -> symlink(a)

\* argument values of a call; an operation reads the fields its signature has
DefaultArgs ==
    [nodeid |-> 1, fh |-> 3, offset |-> 0, size |-> 128, flags |-> 2,
     lock_owner |-> 4, dummy |-> 0, valid |-> 8, atime |-> 11, mtime |-> 12,
     ctime |-> 13, atimensec |-> 14, mtimensec |-> 15, ctimensec |-> 16,
     mode |-> 420, uid |-> 17, gid |-> 18, flush |-> TRUE, mask |-> 5,
     unique |-> 9, umask |-> 18, newdir |-> 6, nlookup |-> 1, oldnodeid |-> 7,
     blocksize |-> 512, index |-> 10, length |-> 64, datasync |-> 1,
     cmd |-> 21, whence |-> 1, rdev |-> 22, events |-> 23, start |-> 24,
     end |-> 25, typ |-> 26, pid |-> 27,
     name |-> <<97>>, newname |-> <<98>>, data |-> <<104, 105>>,
     forget_list |-> <<<<2, 3>>>>]

\* "a" repeated n times
AName(n) == [i \in 1..n |-> 97]

\* byte strings of length at most n over the alphabet S
RECURSIVE Strings(_, _)
Strings(S, n) ==
    IF n = 0 THEN {<<>>}
    ELSE LET shorter == Strings(S, n - 1)
         IN  shorter \cup {Append(s, b) : s \in {t \in shorter : Len(t) = n - 1}, b \in S}

\* "testf01", the name test_device looks up
testf01 == <<116, 101, 115, 116, 102, 48, 49>>

\* a name of 8 bytes that holds a NUL byte
NulName == [AName(8) EXCEPT ![2] = 0]

Names == {testf01, NulName, <<255>>}
Datas == {<<>>, <<104, 105>>, AName(8)}
ForgetLists == {<<>>, <<<<2, 3>>>>, <<<<2, 3>>, <<4, 1>>>>}
Flushes == BOOLEAN

\* the write of no data is called with the file handle 20, every other
\* operation with the handle 3
ArgSet(op) ==
    {[DefaultArgs EXCEPT !.name = n, !.data = d, !.forget_list = fl, !.flush = f,
                         !.fh = IF op = "write" /\ d = <<>> THEN 20 ELSE @] :
        n \in (IF op \in {"rename", "rename2", "symlink"}
               THEN {DefaultArgs.name, NulName}
               ELSE IF op \in {"lookup", "mkdir", "create", "link", "unlink",
                                "getxattr", "mknod", "removexattr", "rmdir"}
               THEN Names ELSE {DefaultArgs.name}),
        d \in (IF op \in {"write", "ioctl"} THEN Datas ELSE {DefaultArgs.data}),
        fl \in (IF op = "batch_forget" THEN ForgetLists ELSE {DefaultArgs.forget_list}),
        f \in (IF op = "release" THEN Flushes ELSE {DefaultArgs.flush})}

(***************************************************************************)
(* The DMA buffer request_buffers[0] and reading from it.  Offsets are     *)
(* 0-based as in the source; the model keeps the first BufWindow bytes and *)
(* every byte past them is zero.                                           *)
(***************************************************************************)
BufferSize == 3 * 4096

buf_at(buf, off) == IF off < Len(buf) THEN buf[off + 1] ELSE 0

\* VmWriter::write at offset off
dma_write(buf, off, bytes) ==
    [i \in 1..Len(buf) |->
        IF i > off /\ i <= off + Len(bytes) THEN bytes[i - off] ELSE buf[i]]

\* no nonzero byte of an image placed at off falls outside the window
InWindow(off, bytes) ==
    {i \in 1..Len(bytes) : off + i > BufWindow /\ bytes[i] # 0} = {}

\* VmReader::read into a vector of n bytes with the cursor at off
read_bytes(buf, off, n) == [i \in 1..n |-> buf_at(buf, off + i - 1)]

RECURSIVE read_val(_, _, _)
\* VmReader::read_val::<T>() with the cursor at off: the bytes of each field
\* of T, in order
read_val(T, buf, off) ==
    IF T = <<>> THEN <<>>
    ELSE <<read_bytes(buf, off, Head(T))>> \o read_val(Tail(T), buf, off + Head(T))

RECURSIVE from_le(_)
\* the value of a little-endian field of at most four bytes, as a
\* two's-complement number: a u32 with its top bit set reads as the negative
\* number of the same bits
from_le(bytes) ==
    IF Len(bytes) = 1
    THEN IF bytes[1] >= 128 THEN bytes[1] - 256 ELSE bytes[1]
    ELSE bytes[1] + 256 * from_le(Tail(bytes))

\* v > k for a u32 field v read by from_le and a small k
u32_gt(v, k) == v < 0 \/ v > k

(***************************************************************************)
(* VirtQueue, after its contract: add_dma_buf takes one descriptor per     *)
(* slice and fails when too few are free, the device moves a chain to the  *)
(* used ring with the number of bytes it wrote, pop_used returns the       *)
(* oldest used chain's token and length and frees its descriptors.         *)
(***************************************************************************)
VirtQueueNew(size) ==
    [size |-> size, free |-> 0..(size - 1), avail |-> {}, used |-> <<>>]

Min(S) == CHOOSE x \in S : \A y \in S : x <= y

available_desc(q) == Cardinality(q.free)

\* the descriptors add_dma_buf takes for n slices
take_desc(q, n) ==
    LET first == Min(q.free)
    IN  IF n = 1 THEN {first} ELSE {first, Min(q.free \ {first})}

\* add_dma_buf(&[&slice_in], &[&slice_out]) for request id
add_dma_buf(q, id, inputs, outputs) ==
    LET descs == take_desc(q, 2)
    IN  [q EXCEPT !.free = @ \ descs,
                  !.avail = @ \cup {[token |-> Min(descs), descs |-> descs, id |-> id,
                                     slice_in |-> inputs, slice_out |-> outputs]}]

device_use(q, c, written) ==
    [q EXCEPT !.avail = @ \ {c},
              !.used = Append(@, [token |-> c.token, descs |-> c.descs,
                                  id |-> c.id, len |-> written])]

pop_used(q) ==
    [q EXCEPT !.used = Tail(@), !.free = @ \cup Head(q.used).descs]

(***************************************************************************)
(* handle_recv_irq: what the match on the opcode at offset 0 reads.        *)
(***************************************************************************)
OpcodeValues ==
    {FuseOpcode[n] : n \in DOMAIN FuseOpcode}

\* FuseOpcode::try_from(v) is Ok
try_from(v) == v \in OpcodeValues

\* per arm: the struct read before the out header, and what follows it
arm(opcode) ==
    CASE opcode = FuseOpcode.FuseInit -> [datain |-> FuseInitIn, kind |-> "struct", dataout |-> FuseInitOut]
      [] opcode = FuseOpcode.FuseReaddir -> [datain |-> FuseReadIn, kind |-> "dirents", dataout |-> <<>>]
      [] opcode = FuseOpcode.FuseOpendir -> [datain |-> FuseOpenIn, kind |-> "struct", dataout |-> FuseOpenOut]
      [] opcode = FuseOpcode.FuseOpen -> [datain |-> FuseOpenIn, kind |-> "struct", dataout |-> FuseOpenOut]
      [] opcode = FuseOpcode.FuseRead -> [datain |-> FuseReadIn, kind |-> "data", dataout |-> <<>>]
      [] opcode = FuseOpcode.FuseFlush -> [datain |-> <<>>, kind |-> "header", dataout |-> <<>>]
      [] opcode = FuseOpcode.FuseReleasedir -> [datain |-> FuseReleaseIn, kind |-> "header", dataout |-> <<>>]
      [] opcode = FuseOpcode.FuseGetattr -> [datain |-> FuseGetattrIn, kind |-> "struct", dataout |-> FuseAttrOut]
      [] opcode = FuseOpcode.FuseSetattr -> [datain |-> FuseSetattrIn, kind |-> "struct", dataout |-> FuseAttrOut]
      [] opcode = FuseOpcode.FuseLookup -> [datain |-> FuseInHeader, kind |-> "struct", dataout |-> FuseEntryOut]
      [] opcode = FuseOpcode.FuseRelease -> [datain |-> FuseReleaseIn, kind |-> "header", dataout |-> <<>>]
      [] opcode = FuseOpcode.FuseWrite -> [datain |-> <<>>, kind |-> "writeout", dataout |-> FuseWriteOut]
      [] opcode = FuseOpcode.FuseAccess -> [datain |-> FuseAccessIn, kind |-> "header", dataout |-> <<>>]
      [] opcode = FuseOpcode.FuseStatfs -> [datain |-> FuseInHeader, kind |-> "struct", dataout |-> FuseStatfsOut]
      [] opcode = FuseOpcode.FuseInterrupt -> [datain |-> FuseInterruptIn, kind |-> "header", dataout |-> <<>>]
      [] opcode = FuseOpcode.FuseMkdir -> [datain |-> FuseMkdirIn, kind |-> "struct", dataout |-> FuseEntryOut]
      [] opcode = FuseOpcode.FuseCreate -> [datain |-> FuseCreateIn, kind |-> "struct", dataout |-> FuseEntryOut]
      [] opcode = FuseOpcode.FuseDestroy -> [datain |-> <<>>, kind |-> "header", dataout |-> <<>>]
      [] opcode = FuseOpcode.FuseRename -> [datain |-> FuseRenameIn, kind |-> "struct", dataout |-> FuseEntryOut]
      [] opcode = FuseOpcode.FuseRename2 -> [datain |-> FuseRename2In, kind |-> "struct", dataout |-> FuseEntryOut]
      [] opcode = FuseOpcode.FuseForget -> [datain |-> FuseForgetIn, kind |-> "header", dataout |-> <<>>]
      [] opcode = FuseOpcode.FuseBatchForget -> [datain |-> FuseBatchForgetIn, kind |-> "header", dataout |-> <<>>]
      [] opcode = FuseOpcode.FuseLink -> [datain |-> FuseLinkIn, kind |-> "struct", dataout |-> FuseEntryOut]
      [] opcode = FuseOpcode.FuseUnlink -> [datain |-> <<>>, kind |-> "struct", dataout |-> FuseEntryOut]
      [] OTHER -> [datain |-> <<>>, kind |-> "none", dataout |-> <<>>]

RECURSIVE read_dirent_unpadded(_, _, _)
\* read_dirent that does not skip the padding after a name
read_dirent_unpadded(buf, off, len) ==
    IF len <= 0 THEN [dirents |-> <<>>, ok |-> TRUE]
    ELSE IF off + size_of(FuseDirent) > BufferSize THEN [dirents |-> <<>>, ok |-> FALSE]
    ELSE LET dirent == read_val(FuseDirent, buf, off)
             namelen == from_le(dirent[3])
             at == off + size_of(FuseDirent)
             got == IF namelen >= 0 /\ namelen < BufferSize - at
                    THEN namelen ELSE BufferSize - at
             file_name == read_bytes(buf, at, got)
             pad_len == (8 - (namelen % 8)) % 8
             rest == read_dirent_unpadded(buf, at + got,
                                          len - (size_of(FuseDirent) + namelen + pad_len))
         IN  [dirents |-> <<[dirent |-> dirent, name |-> file_name]>> \o rest.dirents,
              ok |-> rest.ok]

RECURSIVE read_dirent(_, _, _)
\* FuseReaddirOut::read_dirent with the reader at off and len bytes of entries
\* left: the entries read, and whether every read_val succeeded
read_dirent(buf, off, len) ==
    IF len <= 0 THEN [dirents |-> <<>>, ok |-> TRUE]
    ELSE IF off + size_of(FuseDirent) > BufferSize THEN [dirents |-> <<>>, ok |-> FALSE]
    ELSE LET dirent == read_val(FuseDirent, buf, off)
             namelen == from_le(dirent[3])
             at == off + size_of(FuseDirent)
             got == IF namelen >= 0 /\ namelen < BufferSize - at
                    THEN namelen ELSE BufferSize - at
             file_name == read_bytes(buf, at, got)
             pad_len == (8 - (namelen % 8)) % 8
             next == at + got + (IF pad_len < BufferSize - at - got
                                 THEN pad_len ELSE BufferSize - at - got)
             rest == read_dirent(buf, next,
                                 len - (size_of(FuseDirent) + namelen + pad_len))
         IN  [dirents |-> <<[dirent |-> dirent, name |-> file_name]>> \o rest.dirents,
              ok |-> rest.ok]

NoReply ==
    [panic |-> "none", kind |-> "none", opcode |-> 0, out_off |-> 0,
     headerout |-> [len |-> 0, error |-> 0, unique |-> Zeros(8)],
     dataout |-> <<>>, text |-> <<>>, reported |-> "nothing"]

\* the body of handle_recv_irq after pop_used succeeded, on buffer content buf:
\* what it read, which unwrap panicked if any, and what it reported to the
\* caller (no arm reports anything: every arm prints and falls through)
match_opcode(buf) ==
    LET headerin == read_val(FuseInHeader, buf, 0)
        opcode == from_le(headerin[2])
        a == arm(opcode)
        out_off == size_of(FuseInHeader) + size_of(a.datain)
        out == read_val(FuseOutHeader, buf, out_off)
        headerout == [len |-> from_le(out[1]), error |-> from_le(out[2]), unique |-> out[3]]
        body_off == out_off + size_of(FuseOutHeader)
        res == [NoReply EXCEPT !.kind = a.kind, !.opcode = opcode]
        seen == [res EXCEPT !.out_off = out_off, !.headerout = headerout]
    IN  IF ~try_from(opcode) THEN [res EXCEPT !.panic = "try_from"]
        ELSE CASE a.kind = "none" -> res
               [] a.kind = "header" -> seen
               [] a.kind = "struct" ->
                    [seen EXCEPT !.dataout = read_val(a.dataout, buf, body_off)]
               [] a.kind = "writeout" ->
                    IF u32_gt(headerout.len, size_of(FuseOutHeader))
                    THEN [seen EXCEPT !.dataout = read_val(a.dataout, buf, body_off)]
                    ELSE seen
               [] a.kind = "data" ->
                    IF u32_gt(headerout.len, size_of(FuseOutHeader))
                    THEN LET data_len == headerout.len - size_of(FuseOutHeader)
                             left == BufferSize - body_off
                             dataout_buf == read_bytes(buf, body_off,
                                                IF data_len >= 0 /\ data_len < left
                                                THEN data_len ELSE left)
                         IN  [seen EXCEPT !.text = dataout_buf,
                                          !.panic = IF from_utf8(dataout_buf)
                                                    THEN "none" ELSE "data_from_utf8"]
                    ELSE seen
               [] a.kind = "dirents" ->
                    LET readdir_out ==
                            read_dirent(buf, body_off,
                                        headerout.len - size_of(FuseOutHeader))
                    IN  [seen EXCEPT !.dataout = readdir_out.dirents,
                                     !.panic =
                                        IF ~readdir_out.ok THEN "read_val"
                                        ELSE IF \E i \in 1..Len(readdir_out.dirents) :
                                                    ~from_utf8(readdir_out.dirents[i].name)
                                             THEN "name_from_utf8" ELSE "none"]

(***************************************************************************)
(* State.                                                                  *)
(*   request_buffer  the first BufWindow bytes of request_buffers[0]       *)
(*   request_queue   request_queues[0]                                     *)
(*   hiprio_queue    hiprio_queue                                          *)
(*   TEST_COUNTER    the static counter test_device increments             *)
(*   panicked        "none", or the unwrap that panicked                   *)
(*   requests        history: one record per submitted request, in order   *)
(*   image_of        history: index of the request whose image was written*)
(*                   last at offset 0 (0 before any)                       *)
(*   lastCall        history: the latest operation call                    *)
(*   lastIrq         history: the latest run of handle_recv_irq            *)
(*   pure            input and result of a pure function under SpecPure    *)
(*   cpu             per CPU: the operation it runs and the statement it   *)
(*                   has reached, and whether it runs the interrupt handler*)
(*   lock            per queue: who holds its SpinLock                     *)
(*   unsynced        history: the bytes [0, unsynced) of the region may    *)
(*                   have been written since they were last synchronized   *)
(***************************************************************************)
VARIABLES request_buffer, request_queue, hiprio_queue, TEST_COUNTER, panicked,
          requests, image_of, lastCall, lastIrq, pure, cpu, lock, unsynced

vars == <<request_buffer, request_queue, hiprio_queue, TEST_COUNTER, panicked,
          requests, image_of, lastCall, lastIrq, pure, cpu, lock, unsynced>>

HIPRIO_QUEUE_SIZE == 2
REQUEST_QUEUE_SIZE == 4

NoCall ==
    [op |-> "none", queue |-> "none", headerin |-> [len |-> 0, opcode |-> 0, unique |-> 0, nodeid |-> 0],
     len_in |-> 0, len |-> 0, result |-> "none", notified |-> FALSE,
     should_notify |-> FALSE, id |-> 0,
     args |-> DefaultArgs]

NoIrq ==
    [kind |-> "none", token |-> 0, len |-> 0, id |-> 0, image |-> 0, res |-> NoReply]

NoRep == [error |-> 0, payload |-> <<>>, len |-> 0, forged |-> FALSE]

IdlePure ==
    [name |-> <<>>, repr_c |-> FALSE, out |-> <<>>, step |-> "idle", features |-> {}]

CPUs == {"cpu0", "cpu1"}

\* a CPU that runs no operation and no interrupt handler
IdleCpu ==
    [op |-> "none", pos |-> "idle", irq |-> "none", synced |-> 0, pending |-> FALSE]

\* FilesystemDevice::init: queues and buffers are created, the callback is
\* registered, and test_device runs once
DeviceInit ==
    /\ request_buffer = Zeros(BufWindow)
    /\ request_queue = VirtQueueNew(REQUEST_QUEUE_SIZE)
    /\ hiprio_queue = VirtQueueNew(HIPRIO_QUEUE_SIZE)
    /\ TEST_COUNTER = 1
    /\ panicked = "none"
    /\ requests = <<>>
    /\ image_of = 0
    /\ lastCall = NoCall
    /\ lastIrq = NoIrq
    /\ cpu = [c \in CPUs |-> IdleCpu]
    /\ lock = [q \in {"request", "hiprio"} |-> {}]
    /\ unsynced = 0

Init == DeviceInit /\ pure = IdlePure

\* DmaStreamSlice::new(&self.request_buffers[0], offset, len): the bytes
\* [offset, offset + len) of the buffer
DmaStreamSlice(offset, len) == [offset |-> offset, len |-> len]

\* a writable slice that starts at the start of the buffer
slice_out_from_start(len_in, len) == DmaStreamSlice(0, len)

slice_in(len_in) == DmaStreamSlice(0, len_in)

slice_out(len_in, len) == DmaStreamSlice(len_in, len)

\* notify() called whatever should_notify() returned
notify_unconditionally(notifies, should_notify) == notifies

\* if request_queue.should_notify() { request_queue.notify(); } in an
\* operation that has these lines (notifies): whether notify() is called
notify_if_needed(notifies, should_notify) == notifies /\ should_notify

\* one call of an AnyFuseDevice operation, from the lock to the notify
Submit(op, a, should_notify) ==
    LET r == Op(op, a)
        q == IF r.queue = "hiprio" THEN hiprio_queue ELSE request_queue
        len == Len(r.concat_req)
        id == Len(requests) + 1
        call == [NoCall EXCEPT !.op = op, !.queue = r.queue, !.headerin = r.headerin,
                               !.len_in = r.len_in, !.len = len, !.args = a]
    IN  /\ panicked = "none"
        /\ InWindow(0, r.concat_req)
        /\ IF ~r.utf8
           THEN /\ panicked' = "arg_from_utf8"
                /\ lastCall' = [call EXCEPT !.result = "panic"]
                /\ UNCHANGED <<request_buffer, request_queue, hiprio_queue,
                               requests, image_of>>
           ELSE /\ request_buffer' = dma_write(request_buffer, 0, r.concat_req)
                /\ image_of' = id
                /\ IF available_desc(q) < 2
                   THEN /\ panicked' = "add_dma_buf"
                        /\ lastCall' = [call EXCEPT !.result = "panic"]
                        /\ UNCHANGED <<request_queue, hiprio_queue, requests>>
                   ELSE /\ panicked' = "none"
                        /\ IF r.queue = "hiprio"
                           THEN /\ hiprio_queue' = add_dma_buf(q, id, slice_in(r.len_in),
                                                               slice_out(r.len_in, len))
                                /\ UNCHANGED request_queue
                           ELSE /\ request_queue' = add_dma_buf(q, id, slice_in(r.len_in),
                                                                slice_out(r.len_in, len))
                                /\ UNCHANGED hiprio_queue
                        /\ requests' = Append(requests,
                              [op |-> op, queue |-> r.queue, opcode |-> r.headerin.opcode,
                               unique |-> r.headerin.unique,
                               len_in |-> r.len_in,
                               slice_in |-> slice_in(r.len_in),
                               slice_out |-> slice_out(r.len_in, len),
                               image |-> SubSeq(r.concat_req, 1, r.len_in),
                               state |-> "avail", error |-> 0, outcomes |-> 0,
                               reply |-> NoRep])
                        /\ lastCall' = [call EXCEPT !.result = "submitted", !.id = id,
                                                    !.should_notify = should_notify,
                                                    !.notified =
                                                        notify_if_needed(r.notifies,
                                                                         should_notify)]
        /\ UNCHANGED <<TEST_COUNTER, lastIrq, pure, cpu, lock, unsynced>>

\* callers on any CPU, several requests outstanding
Call ==
    \E fn \in CallOps : \E args \in ArgSet(fn) : \E notify \in BOOLEAN :
        /\ Len(requests) < MaxCalls
        /\ Submit(fn, args, notify)

\* every request on the request queue has been handled, every request on
\* the high-priority queue has been used by the device
Quiescent ==
    \A i \in 1..Len(requests) :
        requests[i].state = (IF requests[i].queue = "hiprio" THEN "used" ELSE "popped")

\* one caller that waits for each request to finish, over every operation
CallSeq ==
    \E fn \in AllOps : \E args \in ArgSet(fn) : \E notify \in BOOLEAN :
        /\ Len(requests) < MaxSeqCalls
        /\ Quiescent
        /\ Submit(fn, args, notify)

(***************************************************************************)
(* The device: it takes an available chain of either queue, writes a reply *)
(* into the chain's writable slice and returns the chain.  The reply's     *)
(* unique is the one the device reads in the readable slice.               *)
(***************************************************************************)
Dirent(ino, off, type, name) ==
    as_bytes(FuseDirent, <<ino, off, Len(name), type>>) \o write_pad(name)

\* the i-th entry of the listings the device answers readdir with: names of
\* 1, 8, 15, ... bytes, so that the padding after a name takes several lengths
DirEntry(i) ==
    [ino |-> 4 + i, off |-> i, type |-> IF i = 1 THEN 4 ELSE 8,
     name |-> [j \in 1..(7 * i - 6) |-> 99 + i]]

Listing(K) == [i \in 1..K |-> DirEntry(i)]

RECURSIVE DirentBytes(_)
\* the region that holds the entries of a listing
DirentBytes(listing) ==
    IF listing = <<>> THEN <<>>
    ELSE LET e == Head(listing)
         IN  Dirent(e.ino, e.off, e.type, e.name) \o DirentBytes(Tail(listing))

EntryOut(nodeid) ==
    as_bytes(FuseEntryOut, <<nodeid>> \o Zeros(Len(FuseEntryOut) - 1))

\* the payload of a successful reply to the request the device reads
ok_payload(opcode) ==
    CASE opcode \in {FuseOpcode.FuseLookup, FuseOpcode.FuseMkdir, FuseOpcode.FuseCreate,
                     FuseOpcode.FuseMknod, FuseOpcode.FuseSymlink, FuseOpcode.FuseLink} ->
            EntryOut(5)
      [] opcode \in {FuseOpcode.FuseOpen, FuseOpcode.FuseOpendir} ->
            as_bytes(FuseOpenOut, <<7, 0, 0>>)
      [] opcode = FuseOpcode.FuseRead -> <<104, 105>>
      [] opcode = FuseOpcode.FuseReaddir ->
            Dirent(5, 1, 4, <<100>>) \o Dirent(6, 2, 8, <<102, 49>>)
      [] opcode = FuseOpcode.FuseWrite -> as_bytes(FuseWriteOut, <<8, 0>>)
      [] opcode = FuseOpcode.FuseBmap -> as_bytes(FuseBmapOut, <<9>>)
      [] OTHER -> <<>>

\* what the device may answer: success, the error -2 (ENOENT), and for the
\* operations that return bytes or names, bytes that are not UTF-8; for
\* readdir also an entry whose namelen is 0xFFFFFFE8 (-24 as i32)
\* a reply that declares the length of what it holds
Rep(error, payload) ==
    [error |-> error, payload |-> payload,
     len |-> size_of(FuseOutHeader) + Len(payload), forged |-> FALSE]

\* a reply whose unique is not the unique of the request it answers
Forged(error, payload) == [Rep(error, payload) EXCEPT !.forged = TRUE]

\* a reply cut short: it declares declared bytes after its header and holds
\* only the first held of them
Truncated(payload, declared, held) ==
    [error |-> 0, payload |-> SubSeq(payload, 1, held),
     len |-> size_of(FuseOutHeader) + declared, forged |-> FALSE]

Replies(opcode) ==
    {Rep(0, ok_payload(opcode)), Rep(-2, <<>>)}
        \cup (IF opcode = FuseOpcode.FuseRead
              THEN {Rep(0, <<255>>), Truncated(AName(8), 8, 2)}
              ELSE IF opcode = FuseOpcode.FuseReaddir
              THEN {Rep(0, Dirent(5, 1, 4, <<255>>)),
                    Rep(0, as_bytes(FuseDirent, <<5, 1, -24, 4>>)),
                    Truncated(Dirent(5, 1, 4, <<100>>), 20, 20)}
                       \cup {Rep(0, DirentBytes(Listing(K))) : K \in 0..MaxDirents}
              ELSE IF opcode = FuseOpcode.FuseGetattr
              THEN {Forged(0, as_bytes(FuseAttrOut, <<1, 0, 0>> \o Zeros(Len(FuseAttr))))}
              ELSE {})

reply_bytes(rep, unique) ==
    LE(rep.len, 4) \o LE(rep.error, 4)
        \o (IF rep.forged THEN [unique EXCEPT ![1] = (@ + 1) % 256] ELSE unique)
        \o rep.payload

DeviceReply(qn) ==
    LET q == IF qn = "hiprio" THEN hiprio_queue ELSE request_queue
    IN  \E c \in q.avail : \E rep \in Replies(from_le(read_bytes(request_buffer, 4, 4))) :
          LET unique == read_bytes(request_buffer, 8, 8)
              bytes == reply_bytes(rep, unique)
          IN  /\ panicked = "none"
              /\ Len(bytes) <= c.slice_out.len
              /\ InWindow(c.slice_out.offset, bytes)
              /\ request_buffer' = dma_write(request_buffer, c.slice_out.offset, bytes)
              /\ IF qn = "hiprio"
                 THEN /\ hiprio_queue' = device_use(q, c, Len(bytes))
                      /\ UNCHANGED request_queue
                 ELSE /\ request_queue' = device_use(q, c, Len(bytes))
                      /\ UNCHANGED hiprio_queue
              /\ requests' = [requests EXCEPT ![c.id].state = "used",
                                              ![c.id].error = rep.error,
                                              ![c.id].reply = rep]
              /\ UNCHANGED <<TEST_COUNTER, panicked, image_of, lastCall, lastIrq, pure>>

Device == (DeviceReply("request") \/ DeviceReply("hiprio")) /\ UNCHANGED <<cpu, lock, unsynced>>

(***************************************************************************)
(* handle_recv_irq, the callback of request queue 0, test_device included. *)
(***************************************************************************)
\* handle_recv_irq from pop_used to drop(request_queue): an empty used ring
\* returns at once, a used chain is popped and the buffer decoded
pop_used_and_decode ==
    /\ panicked = "none"
    /\ IF request_queue.used = <<>>
       THEN /\ lastIrq' = [NoIrq EXCEPT !.kind = "empty"]
            /\ UNCHANGED <<request_queue, requests, panicked>>
       ELSE LET u == Head(request_queue.used)
                res == match_opcode(request_buffer)
            IN  /\ request_queue' = pop_used(request_queue)
                /\ lastIrq' = [kind |-> "popped", token |-> u.token, len |-> u.len,
                               id |-> u.id, image |-> image_of, res |-> res]
                /\ requests' = [requests EXCEPT
                                  ![u.id].state = "popped",
                                  ![u.id].outcomes =
                                      IF res.panic = "none" /\ res.kind # "none"
                                      THEN @ + 1 ELSE @]
                /\ panicked' = res.panic
    /\ UNCHANGED <<request_buffer, hiprio_queue, image_of, lastCall, pure>>

\* handle_recv_irq calling test_device also when pop_used found nothing
handle_recv_irq_always_tests ==
    /\ pop_used_and_decode
    /\ TEST_COUNTER' = IF panicked' = "none" THEN TEST_COUNTER + 1 ELSE TEST_COUNTER

\* from pop_used to the return of test_device; the lock is taken and
\* dropped by the step that runs it
handle_recv_irq ==
    /\ pop_used_and_decode
    /\ TEST_COUNTER' = IF lastIrq'.kind = "popped" /\ panicked' = "none"
                       THEN TEST_COUNTER + 1
                       ELSE TEST_COUNTER

\* the handler run in one step
Irq == handle_recv_irq /\ UNCHANGED <<cpu, lock, unsynced>>

Next == Call \/ Device \/ Irq

Spec == Init /\ [][Next]_vars

NextSeq == CallSeq \/ Device \/ Irq

SpecSeq == Init /\ [][NextSeq]_vars

(***************************************************************************)
(* The pure functions, on inputs drawn at the start.                       *)
(***************************************************************************)
PureInputs ==
    {AName(n) : n \in 0..MaxStrLen} \cup Strings({0, 97, 255}, MaxMixedLen)

InitPure ==
    /\ DeviceInit
    /\ \E name \in PureInputs : \E repr_c \in BOOLEAN :
          pure = [IdlePure EXCEPT !.name = name, !.repr_c = repr_c, !.step = "input"]

PadStr ==
    /\ pure.step = "input"
    /\ pure' = [pure EXCEPT !.out = fuse_pad_str(pure.name, pure.repr_c),
                            !.step = "fuse_pad_str"]
    /\ UNCHANGED <<request_buffer, request_queue, hiprio_queue, TEST_COUNTER,
                   panicked, requests, image_of, lastCall, lastIrq, cpu, lock, unsynced>>

WritePad ==
    /\ pure.step = "input"
    /\ pure' = [pure EXCEPT !.out = write_pad(pure.name), !.step = "write"]
    /\ UNCHANGED <<request_buffer, request_queue, hiprio_queue, TEST_COUNTER,
                   panicked, requests, image_of, lastCall, lastIrq, cpu, lock, unsynced>>

NextPure == PadStr \/ WritePad

SpecPure == InitPure /\ [][NextPure]_vars


(***************************************************************************)
(* Feature negotiation.  A 64-bit feature mask is the set of the positions *)
(* of its 1 bits, so that AND is intersection and OR is union.             *)
(***************************************************************************)
\* bitflags FilesystemFeatures: u64
FilesystemFeatures == [VIRTIO_FS_F_NOTIFICATION |-> {0}]

\* from_bits_truncate: the bits that belong to no declared flag are dropped
from_bits_truncate(bits) == bits \cap FilesystemFeatures.VIRTIO_FS_F_NOTIFICATION

supported_features == FilesystemFeatures.VIRTIO_FS_F_NOTIFICATION

\* negotiate_features joining the two masks with | instead of &
negotiate_features_or(features) ==
    LET device_features == from_bits_truncate(features)
    IN  device_features \cup supported_features

negotiate_features(features) ==
    LET device_features == from_bits_truncate(features)
        filesystem_features == device_features \cap supported_features
    IN  filesystem_features

\* the bit positions the device feature masks are drawn over
FeatureBits == {0, 1, 2, 23, 31, 32, 63}

InitFeatures ==
    /\ DeviceInit
    /\ \E f \in SUBSET FeatureBits :
          pure = [IdlePure EXCEPT !.features = f, !.step = "features"]

Negotiate ==
    /\ pure.step = "features"
    /\ pure' = [pure EXCEPT !.out = negotiate_features(pure.features),
                            !.step = "negotiated"]
    /\ UNCHANGED <<request_buffer, request_queue, hiprio_queue, TEST_COUNTER,
                   panicked, requests, image_of, lastCall, lastIrq, cpu, lock, unsynced>>

\* the result of a negotiation offered to negotiate_features again
Renegotiate ==
    /\ pure.step = "negotiated"
    /\ pure' = [pure EXCEPT !.out = negotiate_features(pure.out),
                            !.step = "renegotiated"]
    /\ UNCHANGED <<request_buffer, request_queue, hiprio_queue, TEST_COUNTER,
                   panicked, requests, image_of, lastCall, lastIrq, cpu, lock, unsynced>>

NextFeatures == Negotiate \/ Renegotiate

SpecFeatures == InitFeatures /\ [][NextFeatures]_vars

\* the handler's pop seen on the queue alone: nothing else pops a used chain
IrqPops == request_queue.used # <<>> /\ request_queue' = pop_used(request_queue)

\* one caller at a time, with the interrupt handler run whenever it has
\* something to do, on an empty used ring and on a used chain; the device
\* owes the driver nothing
SpecLive == SpecSeq /\ WF_vars(request_queue.used = <<>> /\ Irq) /\ WF_request_queue(IrqPops)

(***************************************************************************)
(* The same operations statement by statement, on two CPUs.  An operation  *)
(* takes its queue's SpinLock with disable_irq() in its first statement    *)
(* and holds the guard until it returns; handle_recv_irq takes the lock of *)
(* request queue 0 and drops it before test_device.  A CPU takes the       *)
(* interrupt only while its local interrupts are enabled.                  *)
(***************************************************************************)
LockOps == {"open", "forget"}

\* SpinLock::lock() returns only when nobody holds the lock
lock_free_unchecked(q) == TRUE

lock_free(q) == lock[q] = {}

\* disable_irq(): the local interrupts are off while a guard is held, and
\* inside the interrupt handler
irq_enabled(c) == cpu[c].pos = "idle" /\ cpu[c].irq = "none"

\* self.request_buffers[0].sync(0..len)
sync_range(len) == [start |-> 0, end |-> len]

\* what is left unsynchronized of the bytes [0, dirty) after sync(range)
after_sync(dirty, range) == IF range.end >= dirty THEN 0 ELSE dirty

\* the operations between their first statement and add_dma_buf
Submitting == {c \in CPUs : cpu[c].pos \in {"locked", "written", "synced"}}

\* let mut request_queue = self.request_queues[0].disable_irq().lock();
LockQueue(c) ==
    \E fn \in LockOps :
        LET q == Op(fn, DefaultArgs).queue
        IN  /\ panicked = "none"
            /\ irq_enabled(c)
            /\ Len(requests) + Cardinality(Submitting) < MaxLockCalls
            /\ lock_free(q)
            /\ lock' = [lock EXCEPT ![q] = @ \cup {<<c, "thread">>}]
            /\ cpu' = [cpu EXCEPT ![c].op = fn, ![c].pos = "locked"]
            /\ UNCHANGED <<request_buffer, request_queue, hiprio_queue, TEST_COUNTER,
                           panicked, requests, image_of, lastCall, lastIrq, pure, unsynced>>

\* let len = writer.write(&mut reader);
WriteRequest(c) ==
    LET r == Op(cpu[c].op, DefaultArgs)
    IN  /\ panicked = "none"
        /\ cpu[c].pos = "locked"
        /\ InWindow(0, r.concat_req)
        /\ request_buffer' = dma_write(request_buffer, 0, r.concat_req)
        /\ image_of' = Len(requests) + 1
        /\ unsynced' = IF Len(r.concat_req) > unsynced THEN Len(r.concat_req)
                       ELSE unsynced
        /\ cpu' = [cpu EXCEPT ![c].pos = "written"]
        /\ UNCHANGED <<request_queue, hiprio_queue, TEST_COUNTER, panicked, requests,
                       lastCall, lastIrq, pure, lock>>

\* self.request_buffers[0].sync(0..len).unwrap();
SyncRequest(c) ==
    LET r == Op(cpu[c].op, DefaultArgs)
    IN  /\ panicked = "none"
        /\ cpu[c].pos = "written"
        /\ cpu' = [cpu EXCEPT ![c].pos = "synced",
                              ![c].synced = sync_range(Len(r.concat_req)).end]
        /\ unsynced' = after_sync(unsynced, sync_range(Len(r.concat_req)))
        /\ UNCHANGED <<request_buffer, request_queue, hiprio_queue, TEST_COUNTER,
                       panicked, requests, image_of, lastCall, lastIrq, pure, lock>>

\* request_queue.add_dma_buf(&[&slice_in], &[&slice_out]).unwrap();
AddDmaBuf(c) ==
    LET op == cpu[c].op
        r == Op(op, DefaultArgs)
        q == IF r.queue = "hiprio" THEN hiprio_queue ELSE request_queue
        len == Len(r.concat_req)
        id == Len(requests) + 1
    IN  /\ panicked = "none"
        /\ cpu[c].pos = "synced"
        /\ cpu' = [cpu EXCEPT ![c].pos = "added"]
        /\ IF available_desc(q) < 2
           THEN /\ panicked' = "add_dma_buf"
                /\ UNCHANGED <<request_queue, hiprio_queue, requests, lastCall>>
           ELSE /\ panicked' = "none"
                /\ IF r.queue = "hiprio"
                   THEN /\ hiprio_queue' = add_dma_buf(q, id, slice_in(r.len_in),
                                                       slice_out(r.len_in, len))
                        /\ UNCHANGED request_queue
                   ELSE /\ request_queue' = add_dma_buf(q, id, slice_in(r.len_in),
                                                        slice_out(r.len_in, len))
                        /\ UNCHANGED hiprio_queue
                /\ requests' = Append(requests,
                      [op |-> op, queue |-> r.queue, opcode |-> r.headerin.opcode,
                       unique |-> r.headerin.unique,
                       len_in |-> r.len_in,
                       slice_in |-> slice_in(r.len_in),
                       slice_out |-> slice_out(r.len_in, len),
                       image |-> SubSeq(r.concat_req, 1, r.len_in),
                       state |-> "avail", error |-> 0, outcomes |-> 0,
                       reply |-> NoRep])
                /\ lastCall' = [NoCall EXCEPT !.op = op, !.queue = r.queue,
                                              !.headerin = r.headerin,
                                              !.len_in = r.len_in, !.len = len,
                                              !.result = "submitted", !.id = id]
        /\ UNCHANGED <<request_buffer, TEST_COUNTER, image_of, lastIrq, pure, lock, unsynced>>

\* if request_queue.should_notify() { request_queue.notify(); } and the
\* return, which drops the guard
NotifyReturn(c) ==
    LET q == Op(cpu[c].op, DefaultArgs).queue
    IN  /\ panicked = "none"
        /\ cpu[c].pos = "added"
        /\ \E should_notify \in BOOLEAN :
              lastCall' = [lastCall EXCEPT
                              !.should_notify = should_notify,
                              !.notified =
                                  notify_if_needed(Op(cpu[c].op, DefaultArgs).notifies,
                                                   should_notify)]
        /\ lock' = [lock EXCEPT ![q] = @ \ {<<c, "thread">>}]
        /\ cpu' = [cpu EXCEPT ![c].op = "none", ![c].pos = "idle", ![c].synced = 0]
        /\ UNCHANGED <<request_buffer, request_queue, hiprio_queue, TEST_COUNTER,
                       panicked, requests, image_of, lastIrq, pure, unsynced>>

\* the interrupt of request queue 0 taken on CPU c: handle_recv_irq's
\* let mut request_queue = self.request_queues[0].disable_irq().lock();
IrqLock(c) ==
    /\ panicked = "none"
    /\ irq_enabled(c)
    /\ lock_free("request")
    /\ lock' = [lock EXCEPT !["request"] = @ \cup {<<c, "irq">>}]
    /\ cpu' = [cpu EXCEPT ![c].irq = "locked"]
    /\ UNCHANGED <<request_buffer, request_queue, hiprio_queue, TEST_COUNTER,
                   panicked, requests, image_of, lastCall, lastIrq, pure, unsynced>>

\* the rest of handle_recv_irq
IrqHandle(c) ==
    /\ cpu[c].irq = "locked"
    /\ handle_recv_irq
    /\ lock' = [lock EXCEPT !["request"] = @ \ {<<c, "irq">>}]
    /\ cpu' = [cpu EXCEPT ![c].irq = "none"]
    /\ unsynced' = IF lastIrq'.kind = "popped"
                   THEN after_sync(unsynced, sync_range(lastIrq'.len))
                   ELSE unsynced

NextLock ==
    \/ \E c \in CPUs : \/ LockQueue(c) \/ WriteRequest(c) \/ SyncRequest(c)
                       \/ AddDmaBuf(c) \/ NotifyReturn(c)
                       \/ IrqLock(c) \/ IrqHandle(c)
    \/ Device

SpecLock == Init /\ [][NextLock]_vars

(***************************************************************************)
(* The completion interrupt and test_device statement by statement.  The   *)
(* device raises the interrupt of request queue 0 when it marks a chain    *)
(* used; an interrupt raised while one is already pending on the CPU is    *)
(* merged with it.  test_device takes TEST_COUNTER with write() and read() *)
(* and leaves the local interrupts as they are, so a thread inside it can  *)
(* be interrupted; the handler runs with the local interrupts disabled.    *)
(***************************************************************************)
\* a thread calls test_device only while TEST_COUNTER is below this
MaxTestCounter == 2

Contexts == {"thread", "irq"}

\* where the context ctx of CPU c stands
Where(c, ctx) == IF ctx = "thread" THEN cpu[c].pos ELSE cpu[c].irq

SetWhere(c, ctx, p) ==
    IF ctx = "thread" THEN [cpu EXCEPT ![c].pos = p] ELSE [cpu EXCEPT ![c].irq = p]

\* the thread of a CPU runs only while no handler runs on that CPU
Runs(c, ctx) == ctx = "irq" \/ cpu[c].irq = "none"

\* the position from which a context calls test_device, and the one it
\* returns to
Caller(ctx) == IF ctx = "thread" THEN "idle" ELSE "tc_enter"

Returned(ctx) == IF ctx = "thread" THEN "idle" ELSE "none"

\* the contexts that hold the write guard, and a read guard, of TEST_COUNTER
Writers == {x \in CPUs \X Contexts : Where(x[1], x[2]) = "tc_write"}

Readers == {x \in CPUs \X Contexts : Where(x[1], x[2]) = "tc_read"}

\* let mut test_counter = TEST_COUNTER.write();
TestWrite(c, ctx) ==
    /\ panicked = "none"
    /\ Runs(c, ctx)
    /\ Where(c, ctx) = Caller(ctx)
    /\ ctx = "thread" => TEST_COUNTER < MaxTestCounter
    /\ Writers = {} /\ Readers = {}
    /\ cpu' = SetWhere(c, ctx, "tc_write")
    /\ UNCHANGED <<request_buffer, request_queue, hiprio_queue, TEST_COUNTER, panicked,
                   requests, image_of, lastCall, lastIrq, pure, lock, unsynced>>

\* *test_counter += 1; drop(test_counter);
TestIncrement(c, ctx) ==
    /\ panicked = "none"
    /\ Runs(c, ctx)
    /\ Where(c, ctx) = "tc_write"
    /\ TEST_COUNTER' = TEST_COUNTER + 1
    /\ cpu' = SetWhere(c, ctx, "tc_unlocked")
    /\ UNCHANGED <<request_buffer, request_queue, hiprio_queue, panicked,
                   requests, image_of, lastCall, lastIrq, pure, lock, unsynced>>

\* let test_counter = TEST_COUNTER.read();
TestRead(c, ctx) ==
    /\ panicked = "none"
    /\ Runs(c, ctx)
    /\ Where(c, ctx) = "tc_unlocked"
    /\ Writers = {}
    /\ cpu' = SetWhere(c, ctx, "tc_read")
    /\ UNCHANGED <<request_buffer, request_queue, hiprio_queue, TEST_COUNTER, panicked,
                   requests, image_of, lastCall, lastIrq, pure, lock, unsynced>>

\* match *test_counter { _ => () } and the return, which drops the guard
TestReturn(c, ctx) ==
    /\ panicked = "none"
    /\ Runs(c, ctx)
    /\ Where(c, ctx) = "tc_read"
    /\ cpu' = SetWhere(c, ctx, Returned(ctx))
    /\ UNCHANGED <<request_buffer, request_queue, hiprio_queue, TEST_COUNTER, panicked,
                   requests, image_of, lastCall, lastIrq, pure, lock, unsynced>>

test_device(c, ctx) ==
    TestWrite(c, ctx) \/ TestIncrement(c, ctx) \/ TestRead(c, ctx) \/ TestReturn(c, ctx)

\* the local interrupts of CPU c are enabled: no handler runs on it and its
\* thread holds no queue guard
interruptible(c) ==
    /\ cpu[c].irq = "none"
    /\ cpu[c].pos \in {"idle", "tc_write", "tc_unlocked", "tc_read"}

\* the device marks a chain of request queue 0 used and raises the
\* interrupt on some CPU
DeviceIrq ==
    /\ DeviceReply("request")
    /\ \E c \in CPUs : cpu' = [cpu EXCEPT ![c].pending = TRUE]
    /\ UNCHANGED <<lock, unsynced>>

\* the device marks a chain of the high-priority queue used: no callback is
\* registered for that queue
DeviceHiprio == DeviceReply("hiprio") /\ UNCHANGED <<cpu, lock, unsynced>>

\* CPU c takes the pending interrupt: handle_recv_irq's
\* let mut request_queue = self.request_queues[0].disable_irq().lock();
IrqTaken(c) ==
    /\ panicked = "none"
    /\ cpu[c].pending
    /\ interruptible(c)
    /\ lock_free("request")
    /\ lock' = [lock EXCEPT !["request"] = @ \cup {<<c, "irq">>}]
    /\ cpu' = [cpu EXCEPT ![c].pending = FALSE, ![c].irq = "locked"]
    /\ UNCHANGED <<request_buffer, request_queue, hiprio_queue, TEST_COUNTER,
                   panicked, requests, image_of, lastCall, lastIrq, pure, unsynced>>

\* handle_recv_irq from pop_used to drop(request_queue): it returns when
\* the used ring is empty and goes on to test_device after a chain
IrqPop(c) ==
    /\ cpu[c].irq = "locked"
    /\ pop_used_and_decode
    /\ lock' = [lock EXCEPT !["request"] = @ \ {<<c, "irq">>}]
    /\ cpu' = [cpu EXCEPT ![c].irq = IF lastIrq'.kind = "popped"
                                     THEN Caller("irq") ELSE Returned("irq")]
    /\ unsynced' = IF lastIrq'.kind = "popped"
                   THEN after_sync(unsynced, sync_range(lastIrq'.len))
                   ELSE unsynced
    /\ UNCHANGED TEST_COUNTER

NextIrq ==
    \/ \E c \in CPUs : \/ LockQueue(c) \/ WriteRequest(c) \/ SyncRequest(c)
                       \/ AddDmaBuf(c) \/ NotifyReturn(c)
                       \/ IrqTaken(c) \/ IrqPop(c)
                       \/ \E ctx \in Contexts : test_device(c, ctx)
    \/ DeviceIrq
    \/ DeviceHiprio

SpecIrq == Init /\ [][NextIrq]_vars
(***************************************************************************)
(* Properties.                                                             *)
(***************************************************************************)

\* the smallest multiple of 8 that is >= n
RoundUp8(n) == CHOOSE m \in n..(n + 7) : m % 8 = 0

\* a step of an operation call
CallStep == lastCall' # lastCall

\* C1: every completion the handler pops is matched to the request it
\* belongs to, whatever the order in which the device completes the
\* outstanding requests: the request the handler decodes the reply for is the
\* request whose chain was popped, so in particular it has that request's
\* opcode.
C1_CompletionMatchesRequest ==
    lastIrq.kind = "popped" =>
        /\ lastIrq.image = lastIrq.id
        /\ lastIrq.res.opcode = requests[lastIrq.id].opcode

\* C2: buffer isolation: a call never changes the bytes that hold the request
\* image of a request the device has yet to process.
C2_BufferIsolation ==
    [][CallStep =>
          \A i \in 1..Len(requests) :
              requests[i].state = "avail" =>
                  SubSeq(request_buffer', 1, requests[i].len_in) = requests[i].image]_vars

\* C3: for every operation and every argument, the len field of the
\* FuseInHeader equals len_in, the number of bytes of the readable slice.
C3_HeaderLenIsLenIn ==
    lastCall.op # "none" => lastCall.headerin.len = lastCall.len_in

\* C4 as stated: init, interrupt, forget and batch_forget are submitted on the
\* high-priority queue and every other operation on a request queue.
C4_InitOnHiprio ==
    lastCall.op # "none" =>
        (lastCall.queue = "hiprio"
            <=> lastCall.op \in {"init", "interrupt", "forget", "batch_forget"})

\* C4, amended: interrupt, forget and batch_forget are submitted on the
\* high-priority queue; every other operation, init included, is submitted on
\* request queue 0.
C4_QueueClass ==
    /\ lastCall.op # "none" =>
          (lastCall.queue = "hiprio"
              <=> lastCall.op \in {"interrupt", "forget", "batch_forget"})
    /\ \A c \in hiprio_queue.avail : requests[c.id].queue = "hiprio"
    /\ \A c \in request_queue.avail : requests[c.id].queue = "request"

\* init has been submitted, and its chain is on request queue 0
C4_InitOnRequestQueue ==
    /\ lastCall.op = "init"
    /\ lastCall.result = "submitted"
    /\ \E c \in request_queue.avail : c.id = lastCall.id
    /\ hiprio_queue.avail = {}

\* C5: a call never aborts the driver on a queue without free descriptors: it
\* returns QueueFull to the caller.
C5_QueueFullIsReturned ==
    panicked # "add_dma_buf"

\* C6: every request whose completion has been taken off the used ring by a
\* handler that ran to its end has yielded exactly one outcome; no completion
\* is dropped without one.
C6_OneOutcomePerCompletion ==
    \A i \in 1..Len(requests) :
        requests[i].state = "popped" /\ panicked = "none" => requests[i].outcomes = 1

\* C7: when the handler finds an opcode it has no decoder for, it reports an
\* UnknownOperation error for that response and does not abort.
C7_UnknownOperationReported ==
    lastIrq.kind = "popped" /\ lastIrq.res.kind = "none" =>
        /\ lastIrq.res.reported = "UnknownOperation"
        /\ lastIrq.res.panic = "none"

\* C8: a reply whose out header carries a nonzero error is reported as
\* DeviceError with that code, and its body is not decoded as a success
\* payload.
C8_DeviceErrorPassthrough ==
    lastIrq.kind = "popped" /\ requests[lastIrq.id].error # 0 =>
        /\ lastIrq.res.reported = "DeviceError"
        /\ lastIrq.res.dataout = <<>>

\* C9: no bytes the device writes into the response area make the handler
\* panic.
C9_HandlerNeverPanics ==
    lastIrq.res.panic = "none"

\* C10: fuse_pad_str(name, true) has the length of the smallest multiple of 8
\* that is >= len + 1, fuse_pad_str(name, false) and the padded payload of
\* write have the length of the smallest multiple of 8 that is >= len.
C10_PaddingLength ==
    /\ pure.step = "fuse_pad_str" =>
          Len(pure.out) = RoundUp8(Len(pure.name) + (IF pure.repr_c THEN 1 ELSE 0))
    /\ pure.step = "write" => Len(pure.out) = RoundUp8(Len(pure.name))

\* a name of 7 bytes has been padded, with its NUL, to 8 bytes
C10_PaddedName ==
    /\ pure.step = "fuse_pad_str"
    /\ pure.repr_c
    /\ Len(pure.name) = 7
    /\ Len(pure.out) = 8


\* the bytes left when the trailing zero bytes are stripped
strip_zeros(s) ==
    LET nz == {i \in 1..Len(s) : s[i] # 0}
    IN  IF nz = {} THEN <<>>
        ELSE SubSeq(s, 1, CHOOSE i \in nz : \A j \in nz : j <= i)

\* the padded tail begins with the original bytes and every appended byte is 0
PaddedTail(name, out) ==
    /\ Len(out) >= Len(name)
    /\ SubSeq(out, 1, Len(name)) = name
    /\ \A i \in (Len(name) + 1)..Len(out) : out[i] = 0

\* C11 as stated: for every input, the padded tail begins with the original
\* bytes, every appended byte is zero, and stripping the trailing zeros of the
\* padded tail gives back exactly the original bytes.
C11_StripRecoversEveryInput ==
    pure.step \in {"fuse_pad_str", "write"} =>
        /\ PaddedTail(pure.name, pure.out)
        /\ strip_zeros(pure.out) = pure.name

\* C11, amended: for every input, the padded tail begins with the original
\* bytes and every appended byte is zero, so its first len bytes are the
\* original; stripping the trailing zeros gives the original stripped of its
\* own trailing zeros, which is the original exactly when the original does
\* not end in a zero byte.
C11_PaddingRoundTrip ==
    pure.step \in {"fuse_pad_str", "write"} =>
        /\ PaddedTail(pure.name, pure.out)
        /\ strip_zeros(pure.out) = strip_zeros(pure.name)
        /\ (strip_zeros(pure.out) = pure.name
               <=> (pure.name = <<>> \/ pure.name[Len(pure.name)] # 0))

\* a name that does not end in a zero byte has been padded with zero bytes,
\* and stripping them gives the name back
C11_StrippedName ==
    /\ pure.step = "fuse_pad_str"
    /\ pure.name # <<>>
    /\ pure.name[Len(pure.name)] # 0
    /\ Len(pure.out) > Len(pure.name) + 1
    /\ strip_zeros(pure.out) = pure.name

\* the chain of the last call, as it was put on its queue
LastChain ==
    {c \in request_queue.avail \cup hiprio_queue.avail : c.id = lastCall.id}

\* C12: for every name, lookup(nodeid, name) submits a request whose header
\* len and readable slice length are both 40 + the smallest multiple of 8
\* that is >= len(name) + 1, and whose header nodeid is the argument;
\* lookup(1, "testf01") has request length 48.
C12_LookupLength ==
    lastCall.op = "lookup" /\ lastCall.result = "submitted" =>
        LET want == 40 + RoundUp8(Len(lastCall.args.name) + 1)
            image == requests[lastCall.id].image
        IN  /\ lastCall.headerin.len = want
            /\ lastCall.len_in = want
            /\ Len(image) = want
            /\ from_le(SubSeq(image, 1, 4)) = want
            /\ \A c \in LastChain : c.slice_in = [offset |-> 0, len |-> want]
            /\ lastCall.headerin.nodeid = lastCall.args.nodeid
            /\ SubSeq(image, 17, 24) = LE(lastCall.args.nodeid, 8)
            /\ (lastCall.args.name = testf01 => want = 48)

\* lookup(1, "testf01") has been submitted with a readable slice of 48 bytes
C12_LookupTestf01 ==
    /\ lastCall.op = "lookup"
    /\ lastCall.result = "submitted"
    /\ lastCall.args.name = testf01
    /\ lastCall.args.nodeid = 1
    /\ lastCall.headerin.len = 48
    /\ \E c \in LastChain : c.slice_in.len = 48

\* C13 as stated: a successful Lookup reply is 176 bytes, a 16-byte
\* FuseOutHeader followed by a 160-byte FuseEntryOut, and lookup reserves
\* that FuseEntryOut size for the reply body.
C13_LookupReply176 ==
    /\ lastCall.op = "lookup" /\ lastCall.result = "submitted" =>
          lastCall.len = lastCall.len_in + 16 + 160
    /\ lastIrq.kind = "popped" /\ requests[lastIrq.id].op = "lookup"
           /\ requests[lastIrq.id].error = 0 =>
          lastIrq.len = 176

\* C13, amended: a successful Lookup reply is 144 bytes, a 16-byte
\* FuseOutHeader followed by a 128-byte FuseEntryOut (40 bytes and the 88
\* bytes of FuseAttr), and lookup reserves 16 + 128 bytes after the readable
\* slice's bytes for the out header and the reply body.
C13_LookupReply144 ==
    /\ size_of(FuseAttr) = 88
    /\ size_of(FuseEntryOut) = 128
    /\ lastCall.op = "lookup" /\ lastCall.result = "submitted" =>
          lastCall.len = lastCall.len_in + 16 + 128
    /\ lastIrq.kind = "popped" /\ requests[lastIrq.id].op = "lookup"
           /\ requests[lastIrq.id].error = 0 =>
          lastIrq.len = 144

\* the handler has popped the completion of a successful lookup, whose reply
\* is 144 bytes
C13_LookupReplied ==
    /\ lastIrq.kind = "popped"
    /\ requests[lastIrq.id].op = "lookup"
    /\ requests[lastIrq.id].error = 0
    /\ lastIrq.len = 144
    /\ lastCall.len = lastCall.len_in + 144

\* the entry a FuseDirentWithName stands for
DecodedEntry(d) ==
    [ino |-> d.dirent[1], off |-> d.dirent[2], namelen |-> from_le(d.dirent[3]),
     type |-> from_le(d.dirent[4]), name |-> d.name]

RECURSIVE EncodeDirents(_)
\* the region that holds the entries read_dirent returned, each followed by
\* its name and zero padding to an 8-byte boundary
EncodeDirents(dirents) ==
    IF dirents = <<>> THEN <<>>
    ELSE LET d == Head(dirents)
         IN  d.dirent[1] \o d.dirent[2] \o d.dirent[3] \o d.dirent[4]
                 \o write_pad(d.name) \o EncodeDirents(Tail(dirents))

RECURSIVE WholeRecords(_)
\* region holds nothing but whole FuseDirent records, each followed by its
\* name and zero padding to an 8-byte boundary
WholeRecords(region) ==
    \/ region = <<>>
    \/ /\ Len(region) >= size_of(FuseDirent)
       /\ LET namelen == from_le(SubSeq(region, 17, 20))
              size == size_of(FuseDirent) + RoundUp8(namelen)
          IN  /\ namelen >= 0
              /\ size <= Len(region)
              /\ \A i \in (size_of(FuseDirent) + namelen + 1)..size : region[i] = 0
              /\ WholeRecords(SubSeq(region, size + 1, Len(region)))

\* the handler has popped a successful reply to readdir that holds whole
\* records and whose declared length is 16 + the size of the records
ReaddirDecoded ==
    /\ lastIrq.kind = "popped"
    /\ requests[lastIrq.id].op = "readdir"
    /\ requests[lastIrq.id].error = 0
    /\ requests[lastIrq.id].reply.len = 16 + Len(requests[lastIrq.id].reply.payload)
    /\ WholeRecords(requests[lastIrq.id].reply.payload)

\* C14: for every K >= 0 and every region that holds K FuseDirent records,
\* each followed by its name and zero padding to an 8-byte boundary, whose
\* size plus 16 is out_header.len, read_dirent returns exactly K entries in
\* stored order, each with its ino, off, namelen and type and its name bytes
\* exactly.
C14_DirectoryDecode ==
    ReaddirDecoded =>
        LET region == requests[lastIrq.id].reply.payload
            dirents == lastIrq.res.dataout
        IN  /\ lastIrq.res.panic \in {"none", "name_from_utf8"}
            /\ EncodeDirents(dirents) = region
            /\ \A i \in 1..Len(dirents) : dirents[i].dirent[3] = LE(Len(dirents[i].name), 4)
            /\ \A K \in 0..MaxDirents :
                  region = DirentBytes(Listing(K)) =>
                      /\ Len(dirents) = K
                      /\ \A i \in 1..K :
                            DecodedEntry(dirents[i]) =
                                [ino |-> LE(DirEntry(i).ino, 8),
                                 off |-> LE(DirEntry(i).off, 8),
                                 namelen |-> Len(DirEntry(i).name),
                                 type |-> DirEntry(i).type,
                                 name |-> DirEntry(i).name]

\* read_dirent has returned the MaxDirents entries of the longest listing
C14_ListingDecoded ==
    /\ ReaddirDecoded
    /\ requests[lastIrq.id].reply.payload = DirentBytes(Listing(MaxDirents))
    /\ Len(lastIrq.res.dataout) = MaxDirents
    /\ lastIrq.res.dataout[MaxDirents].name = DirEntry(MaxDirents).name

\* the handler has popped a successful reply to read or readdir
ReadReplyDecoded ==
    /\ lastIrq.kind = "popped"
    /\ requests[lastIrq.id].op \in {"read", "readdir"}
    /\ requests[lastIrq.id].error = 0

\* the bytes of the response, out header included, the decoder has consumed
Consumed ==
    size_of(FuseOutHeader)
        + (IF requests[lastIrq.id].op = "readdir"
           THEN Len(EncodeDirents(lastIrq.res.dataout))
           ELSE Len(lastIrq.res.text))

\* C15: for Read and Readdir responses the decoder reads no byte of the
\* response beyond offset out_header.len, and a reply that ends before a
\* complete record or payload (the device wrote fewer bytes than the header
\* declares, or the declared length is not one of whole records) is reported
\* as BufferTooShort.
C15_DecodeWithinDeclaredLen ==
    ReadReplyDecoded =>
        /\ Consumed <= lastIrq.res.headerout.len
        /\ (lastIrq.len < lastIrq.res.headerout.len \/ Consumed # lastIrq.res.headerout.len
               => lastIrq.res.reported = "BufferTooShort")

\* the operations that take a name
NameOps ==
    {"lookup", "mkdir", "create", "rename", "rename2", "link", "unlink", "rmdir",
     "mknod", "symlink", "getxattr", "removexattr"}

\* a name the protocol cannot carry: it holds a NUL byte or is not UTF-8
NotEncodable(name) ==
    (\E i \in 1..Len(name) : name[i] = 0) \/ ~from_utf8(name)

\* C16: an operation that takes a name, called with a name that holds a NUL
\* byte or is otherwise not encodable, fails with EncodingError, submits
\* nothing to any queue, leaves the DMA buffer unchanged and does not abort
\* the driver.
C16_BadNameIsEncodingError ==
    [][CallStep /\ lastCall'.op \in NameOps /\ NotEncodable(lastCall'.args.name) =>
          /\ lastCall'.result = "EncodingError"
          /\ panicked' = "none"
          /\ UNCHANGED <<request_buffer, request_queue, hiprio_queue, requests>>]_vars

\* C17: negotiate_features(f) is f AND the supported mask, which has only bit
\* 0: bit 0 of the result is bit 0 of f, every other bit is 0, and applying
\* negotiate_features to the result gives the result again.
C17_NegotiateIsMasking ==
    pure.step \in {"negotiated", "renegotiated"} =>
        /\ supported_features = {0}
        /\ pure.out = pure.features \cap supported_features
        /\ (0 \in pure.out <=> 0 \in pure.features)
        /\ \A b \in 1..63 : b \notin pure.out
        /\ negotiate_features(pure.out) = pure.out

\* a mask with bit 0 and higher bits set has been negotiated twice, down to
\* bit 0 alone
C17_NegotiatedTwice ==
    /\ pure.step = "renegotiated"
    /\ {0, 32, 63} \subseteq pure.features
    /\ pure.out = {0}

\* the chains the device has yet to use
Outstanding == request_queue.avail \cup hiprio_queue.avail

\* two slices have no byte in common
Disjoint(s, t) ==
    s.offset + s.len <= t.offset \/ t.offset + t.len <= s.offset

\* C18: for every submission the writable slice does not overlap the readable
\* slice, and the writable slice's offset and size are those fixed when the
\* descriptor pair was submitted.
C18_SlicesDisjointAndFixed ==
    \A c \in Outstanding :
        /\ Disjoint(c.slice_in, c.slice_out)
        /\ c.slice_in.len > 0 /\ c.slice_out.len > 0
        /\ c.slice_out = requests[c.id].slice_out
        /\ c.slice_in = requests[c.id].slice_in

\* write has been submitted: its readable slice ends where its writable slice
\* starts
C18_WriteSubmitted ==
    /\ lastCall.op = "write"
    /\ lastCall.result = "submitted"
    /\ \E c \in Outstanding :
          /\ c.id = lastCall.id
          /\ c.slice_in.offset + c.slice_in.len = c.slice_out.offset
          /\ c.slice_out.len > 0

\* C19: for every operation the readable slice is the bytes [0, len_in) and
\* the writable slice is exactly the bytes [len_in, len_in + capacity), where
\* capacity is what the operation reserved for the out header and the reply
\* body (16 + 256 for init, 16 + 1024 for read and readdir); the writable
\* slice does not extend past the bytes the submission wrote.
C19_WritableSliceIsCapacity ==
    lastCall.result = "submitted" =>
        \A c \in LastChain :
            LET capacity == lastCall.len - lastCall.len_in
            IN  /\ c.slice_in = [offset |-> 0, len |-> lastCall.len_in]
                /\ c.slice_out = [offset |-> lastCall.len_in, len |-> capacity]
                /\ c.slice_out.offset + c.slice_out.len <= lastCall.len
                /\ (lastCall.op = "init" => capacity = 16 + 256)
                /\ (lastCall.op \in {"read", "readdir"} => capacity = 16 + 1024)

\* the offsets of the nonzero bytes of buf inside slice s
NonZeroIn(buf, s) ==
    {i \in s.offset..(s.offset + s.len - 1) : buf_at(buf, i) # 0}

\* C20: after any sequence of earlier requests and completions, at the moment
\* a request is submitted every byte of its writable slice is zero: no
\* request byte and no stale byte of an earlier request or response lies
\* inside it.
C20_WritableSliceZeroed ==
    [][CallStep /\ lastCall'.result = "submitted" =>
          \A c \in request_queue'.avail \cup hiprio_queue'.avail :
              c.id = lastCall'.id => NonZeroIn(request_buffer', c.slice_out) = {}]_vars

\* C21: for every opcode the handler decodes, the FuseOutHeader is read at
\* the offset where the request's writable slice starts, which is the
\* request's len_in and its header's len, and the output struct is read
\* right after it.
C21_OutHeaderAtLenIn ==
    lastIrq.kind = "popped" /\ lastIrq.res.panic = "none" /\ lastIrq.res.kind # "none" =>
        /\ lastIrq.res.out_off = requests[lastIrq.id].slice_out.offset
        /\ lastIrq.res.out_off = requests[lastIrq.id].len_in
        /\ lastIrq.res.out_off = from_le(SubSeq(requests[lastIrq.id].image, 1, 4))

\* C22: the handler looks the pending request up by the token pop_used
\* returned and checks the out header's unique against the request's; a
\* reply whose unique disagrees is recorded as a protocol-integrity fault and
\* is not decoded as a successful response.
C22_UniqueMismatchIsFault ==
    lastIrq.kind = "popped" /\ requests[lastIrq.id].reply.forged =>
        /\ lastIrq.res.reported = "ProtocolFault"
        /\ lastIrq.res.dataout = <<>>
        /\ requests[lastIrq.id].outcomes = 0

\* the handler has taken the completion of request i: the request is
\* Completed or Faulted
Terminal(i) == Len(requests) >= i /\ requests[i].state = "popped"

\* C23: a request moves from Submitted through AwaitingCompletion to a
\* terminal state, which it never leaves, and every submitted request
\* eventually reaches a terminal state, even when the device never completes
\* its buffer.
C23_EveryRequestTerminates ==
    \A i \in 1..MaxSeqCalls : (Len(requests) >= i) ~> Terminal(i)

\* the queue whose lock the operation running on CPU c took
QueueOf(c) == Op(cpu[c].op, DefaultArgs).queue

\* C24: every submission on a queue and every pop of a completion of that
\* queue run inside that queue's lock with the local interrupts disabled:
\* the lock has one holder at most, an operation holds its queue's lock from
\* its first statement to its return, the handler holds the lock of request
\* queue 0 while it pops and decodes, and the handler never runs on a CPU
\* that is inside an operation.
C24_CriticalSectionsExcluded ==
    /\ \A q \in DOMAIN lock : Cardinality(lock[q]) <= 1
    /\ \A c \in CPUs :
          /\ cpu[c].pos # "idle" => <<c, "thread">> \in lock[QueueOf(c)]
          /\ cpu[c].irq = "locked" => <<c, "irq">> \in lock["request"]
          /\ cpu[c].pos # "idle" => cpu[c].irq = "none" /\ ~irq_enabled(c)

\* an operation is in the middle of its submission on request queue 0 while
\* a completion waits in the used ring of that queue
C24_CompletionWaitsForLock ==
    /\ request_queue.used # <<>>
    /\ \E c \in CPUs :
          /\ cpu[c].pos = "written"
          /\ QueueOf(c) = "request"
          /\ lock["request"] = {<<c, "thread">>}

\* the requests handed to a queue and not yet popped by the handler
InFlight == {i \in 1..Len(requests) : requests[i].state # "popped"}

\* C25: a request is written into request_buffers[0] only by a CPU that
\* holds the lock of request queue 0, the queue the region belongs to, only
\* while no request is in flight in the region, and while no other CPU is
\* inside a submission or the completion handler; an operation of the
\* high-priority queue never writes it.
C25_WriteOwnsRegion ==
    [][\A c \in CPUs :
          cpu[c].pos = "locked" /\ cpu'[c].pos = "written" =>
              /\ <<c, "thread">> \in lock["request"]
              /\ QueueOf(c) # "hiprio"
              /\ InFlight = {}
              /\ \A d \in CPUs \ {c} : cpu[d].pos = "idle" /\ cpu[d].irq = "none"]_vars

\* the FUSE ABI opcode of each operation of AnyFuseDevice
AbiOpcode ==
    [init |-> FuseOpcode.FuseInit, opendir |-> FuseOpcode.FuseOpendir,
     readdir |-> FuseOpcode.FuseReaddir, read |-> FuseOpcode.FuseRead,
     open |-> FuseOpcode.FuseOpen, flush |-> FuseOpcode.FuseFlush,
     releasedir |-> FuseOpcode.FuseReleasedir, getattr |-> FuseOpcode.FuseGetattr,
     setattr |-> FuseOpcode.FuseSetattr, lookup |-> FuseOpcode.FuseLookup,
     release |-> FuseOpcode.FuseRelease, access |-> FuseOpcode.FuseAccess,
     statfs |-> FuseOpcode.FuseStatfs, interrupt |-> FuseOpcode.FuseInterrupt,
     mkdir |-> FuseOpcode.FuseMkdir, create |-> FuseOpcode.FuseCreate,
     destroy |-> FuseOpcode.FuseDestroy, rename |-> FuseOpcode.FuseRename,
     rename2 |-> FuseOpcode.FuseRename2, write |-> FuseOpcode.FuseWrite,
     forget |-> FuseOpcode.FuseForget, batch_forget |-> FuseOpcode.FuseBatchForget,
     link |-> FuseOpcode.FuseLink, unlink |-> FuseOpcode.FuseUnlink,
     bmap |-> FuseOpcode.FuseBmap, fallocate |-> FuseOpcode.FuseFallocate,
     fsync |-> FuseOpcode.FuseFsync, fsyncdir |-> FuseOpcode.FuseFsyncdir,
     getlk |-> FuseOpcode.FuseGetlk, getxattr |-> FuseOpcode.FuseGetxattr,
     ioctl |-> FuseOpcode.FuseIoctl, listxattr |-> FuseOpcode.FuseListxattr,
     lseek |-> FuseOpcode.FuseLseek, mknod |-> FuseOpcode.FuseMknod,
     poll |-> FuseOpcode.FusePoll, readlink |-> FuseOpcode.FuseReadlink,
     removexattr |-> FuseOpcode.FuseRemovexattr, rmdir |-> FuseOpcode.FuseRmdir,
     setlk |-> FuseOpcode.FuseSetlk, setlkw |-> FuseOpcode.FuseSetlkw,
     symlink |-> FuseOpcode.FuseSymlink]

\* the operations whose signature has no nodeid
NoNodeOps == {"init", "interrupt", "destroy", "batch_forget"}

\* C26: a submitted request's header holds the ABI opcode of the operation
\* that was called and, for an operation that takes a nodeid, that nodeid;
\* requests of different operations hold different opcodes (fsync sends 20,
\* fsyncdir sends 30).
C26_OpcodeOfOperation ==
    /\ lastCall.result = "submitted" =>
          /\ lastCall.headerin.opcode = AbiOpcode[lastCall.op]
          /\ lastCall.op \notin NoNodeOps => lastCall.headerin.nodeid = lastCall.args.nodeid
    /\ \A i, j \in 1..Len(requests) :
          requests[i].op # requests[j].op => requests[i].opcode # requests[j].opcode

\* the fixed input struct of each operation whose opcode has one
InStruct ==
    [init |-> FuseInitIn, opendir |-> FuseOpenIn, readdir |-> FuseReadIn,
     read |-> FuseReadIn, open |-> FuseOpenIn, flush |-> FuseFlushIn,
     releasedir |-> FuseReleaseIn, getattr |-> FuseGetattrIn,
     setattr |-> FuseSetattrIn, release |-> FuseReleaseIn,
     access |-> FuseAccessIn, interrupt |-> FuseInterruptIn,
     mkdir |-> FuseMkdirIn, create |-> FuseCreateIn, rename |-> FuseRenameIn,
     rename2 |-> FuseRename2In, write |-> FuseWriteIn, forget |-> FuseForgetIn,
     batch_forget |-> FuseBatchForgetIn, link |-> FuseLinkIn, bmap |-> FuseBmapIn,
     fallocate |-> FuseFallocateIn, fsync |-> FuseFsyncIn,
     fsyncdir |-> FuseFsyncIn, getlk |-> FuseLkIn, getxattr |-> FuseGetxattrIn,
     ioctl |-> FuseIoctlIn, listxattr |-> FuseGetxattrIn, lseek |-> FuseLseekIn,
     mknod |-> FuseMknodIn, poll |-> FusePollIn, setlk |-> FuseLkIn,
     setlkw |-> FuseLkIn]

\* the input struct of the lock, fsyncdir, listxattr and batch_forget
\* operations filled from the arguments
FilledIn(op, a) ==
    CASE op \in {"getlk", "setlk", "setlkw"} ->
             as_bytes(FuseLkIn, <<a.fh, a.lock_owner, a.start, a.end, a.typ, a.pid, 0, 0>>)
      [] op = "fsyncdir" -> as_bytes(FuseFsyncIn, <<a.fh, a.datasync, 0>>)
      [] op = "listxattr" -> as_bytes(FuseGetxattrIn, <<a.size, 0>>)
      [] op = "batch_forget" ->
             as_bytes(FuseBatchForgetIn, <<Len(a.forget_list), 0>>)
                 \o forgetin_bytes(a.forget_list)

\* C27: the readable slice of a submitted request whose opcode has a fixed
\* input struct is the 40-byte FuseInHeader followed by that whole struct;
\* header.len counts it; for getlk, setlk, setlkw, fsyncdir, listxattr and
\* batch_forget the struct holds the call's arguments (batch_forget: the
\* count of entries, then the entries).
C27_HeaderThenInputStruct ==
    lastCall.result = "submitted" /\ lastCall.op \in DOMAIN InStruct =>
        LET image == requests[lastCall.id].image
            n == size_of(InStruct[lastCall.op])
        IN  /\ lastCall.len_in >= size_of(FuseInHeader) + n
            /\ lastCall.headerin.len = lastCall.len_in
            /\ Len(image) = lastCall.len_in
            /\ lastCall.op \in {"getlk", "setlk", "setlkw", "fsyncdir", "listxattr",
                                "batch_forget"} =>
                  LET filled == FilledIn(lastCall.op, lastCall.args)
                  IN  /\ lastCall.len_in = size_of(FuseInHeader) + Len(filled)
                      /\ SubSeq(image, size_of(FuseInHeader) + 1, lastCall.len_in) = filled

\* s followed by the zero bytes of the rule pad = (8 - (n mod 8)) mod 8
Padded(s) == s \o Zeros((8 - (Len(s) % 8)) % 8)

TwoNameOps == {"rename", "rename2", "symlink"}

\* the bytes of a submitted request between its fixed input struct and the
\* end of its readable slice
VariableTail(id) ==
    LET op == requests[id].op
        fixed == IF op \in DOMAIN InStruct THEN size_of(InStruct[op]) ELSE 0
    IN  SubSeq(requests[id].image, size_of(FuseInHeader) + fixed + 1,
               Len(requests[id].image))

\* C28 as stated: in rename, rename2 and symlink each of the two names is
\* padded by itself, one NUL byte lies between the first name and the
\* second, and header.len counts the padded tail and is a multiple of 8.
C28_EachNamePaddedAlone ==
    lastCall.result = "submitted" /\ lastCall.op \in TwoNameOps =>
        LET a == lastCall.args
            tail == VariableTail(lastCall.id)
        IN  /\ tail = Padded(a.name \o <<0>>) \o Padded(a.newname \o <<0>>)
            /\ SubSeq(tail, 1, Len(a.name) + 1 + Len(a.newname))
                   = a.name \o <<0>> \o a.newname
            /\ lastCall.headerin.len = Len(requests[lastCall.id].image)
            /\ lastCall.headerin.len % 8 = 0

\* C28: rename and rename2 send one variable field, name, one NUL byte,
\* newname and a terminating NUL, padded once as a whole; symlink sends two
\* fields, name and link, each NUL-terminated and padded by itself; in all
\* three header.len counts header, fixed body and padded tail and is a
\* multiple of 8.
C28_TailLayout ==
    lastCall.result = "submitted" /\ lastCall.op \in TwoNameOps =>
        LET a == lastCall.args
            tail == VariableTail(lastCall.id)
        IN  /\ lastCall.op \in {"rename", "rename2"} =>
                  tail = Padded(a.name \o <<0>> \o a.newname \o <<0>>)
            /\ lastCall.op = "symlink" =>
                  tail = Padded(a.name \o <<0>>) \o Padded(a.newname \o <<0>>)
            /\ lastCall.headerin.len = Len(requests[lastCall.id].image)
            /\ lastCall.headerin.len = lastCall.len_in
            /\ lastCall.headerin.len % 8 = 0

\* rename was submitted with names whose joined and separate paddings differ
C28_RenameShortName ==
    /\ lastCall.result = "submitted"
    /\ lastCall.op = "rename"
    /\ Len(lastCall.args.name) % 8 # 7
    /\ Len(VariableTail(lastCall.id)) = 8

\* the handler has popped the reply to a read or a write and decoded it
\* without panicking
PayloadDecoded(op) ==
    /\ lastIrq.kind = "popped"
    /\ requests[lastIrq.id].op = op
    /\ lastIrq.res.panic \in {"none", "data_from_utf8"}

\* C29: of a Read response the handler takes out_header.len - 16 payload
\* bytes when out_header.len > 16 and none otherwise, whatever capacity the
\* request reserved; of a Write response it decodes a FuseWriteOut only when
\* the response's out_header.len > 16.
C29_PayloadLengthFromHeader ==
    /\ PayloadDecoded("read") =>
          Len(lastIrq.res.text) =
              (IF requests[lastIrq.id].reply.len > size_of(FuseOutHeader)
               THEN requests[lastIrq.id].reply.len - size_of(FuseOutHeader)
               ELSE 0)
    /\ PayloadDecoded("write") /\ lastIrq.res.dataout # <<>> =>
          requests[lastIrq.id].reply.len > size_of(FuseOutHeader)

\* CPU c takes the step from position from to position to
Moves(c, from, to) == cpu[c].pos = from /\ cpu'[c].pos = to

ReadEnd ==
    lastIrq.res.out_off + size_of(FuseOutHeader)
        + (IF lastIrq.res.kind = "data" THEN Len(lastIrq.res.text)
           ELSE IF lastIrq.res.kind = "dirents" THEN Len(EncodeDirents(lastIrq.res.dataout))
           ELSE IF lastIrq.res.dataout = <<>> THEN 0
           ELSE size_of(arm(lastIrq.res.opcode).dataout))

\* C31: the range handle_recv_irq synchronizes after pop_used, 0..len with
\* len the used length, covers every byte it then reads: the out header it
\* decodes and the reply the device wrote into the writable slice at len_in.
C31_SyncCoversReply ==
    lastIrq.kind = "popped" /\ lastIrq.res.kind # "none" =>
        /\ ReadEnd <= sync_range(lastIrq.len).end
        /\ requests[lastIrq.id].slice_out.offset + lastIrq.len
               <= sync_range(lastIrq.len).end

\* C32: an operation has notified the device only if should_notify returned
\* true after its descriptor pair was added; an operation whose
\* should_notify returned false has not notified.
C32_NotifyOnlyIfShould ==
    lastCall.notified => lastCall.result = "submitted" /\ lastCall.should_notify

\* an operation has added its pair, should_notify returned false and it
\* returned without notifying
C32_ReturnedSilently ==
    /\ lastCall.result = "submitted"
    /\ lastCall.op = "interrupt"
    /\ ~lastCall.should_notify
    /\ ~lastCall.notified

\* C33: an operation that has added its descriptor pair while should_notify
\* was true has notified the device before it returned; this holds for every
\* operation, rename2 included.
C33_NotifiedWhenNeeded ==
    lastCall.result = "submitted" /\ lastCall.should_notify => lastCall.notified

\* a write was submitted: the FuseWriteIn it sent, field by field
WriteInSent == read_val(FuseWriteIn, requests[lastCall.id].image, size_of(FuseInHeader))

\* C36: the size field of the FuseWriteIn a write sends is the number of
\* bytes the caller passed, not the length after padding.
C36_WriteSizeIsCallerLength ==
    lastCall.result = "submitted" /\ lastCall.op = "write" =>
        from_le(WriteInSent[3]) = Len(lastCall.args.data)

\* every request submitted on the high-priority queue has been completed by
\* the device
HiprioAllCompleted ==
    \A i \in 1..Len(requests) :
        requests[i].queue = "hiprio" => requests[i].state \in {"used", "popped"}

\* C35: the descriptors of the high-priority requests the device has
\* completed are reclaimed: a call of interrupt, forget or batch_forget made
\* when the device has completed every earlier high-priority request is
\* submitted.
C35_HiprioDescriptorsReclaimed ==
    [][CallStep /\ lastCall'.queue = "hiprio" /\ HiprioAllCompleted =>
          lastCall'.result = "submitted"]_vars

\* i32::MAX
MaxI32 == 2147483647

\* what the loop of read_dirent subtracts from its counter for an entry
\* whose namelen, cast to i32, is n; n is in range for the sum
CounterStep(n) == size_of(FuseDirent) + n + ((8 - (n % 8)) % 8)

\* C38: read_dirent terminates without a panic whatever out_header.len and
\* whatever namelen values the device supplies; for every entry read the
\* counter strictly decreases and the subtraction stays inside i32; when
\* out_header.len <= 16 the result is the empty list.
C38_ReadDirentCounterDecreases ==
    lastIrq.kind = "popped" /\ lastIrq.res.kind = "dirents" =>
        /\ lastIrq.res.panic # "read_val"
        /\ ~u32_gt(lastIrq.res.headerout.len, size_of(FuseOutHeader)) =>
              lastIrq.res.dataout = <<>>
        /\ \A i \in 1..Len(lastIrq.res.dataout) :
              LET n == from_le(lastIrq.res.dataout[i].dirent[3])
              IN  /\ n <= MaxI32 - size_of(FuseDirent) - 7
                  /\ n >= -size_of(FuseDirent) => CounterStep(n) > 0
                  /\ n >= 0

\* a run of handle_recv_irq that found no used chain
EmptyIrqStep == lastIrq' # lastIrq /\ lastIrq'.kind = "empty"

\* C39: a run of the handler that finds no used chain changes nothing: the
\* region is neither written nor synchronized, no queue changes, nothing is
\* decoded or reported, TEST_COUNTER keeps its value and no request is
\* submitted.
C39_EmptyIrqChangesNothing ==
    [][EmptyIrqStep =>
          /\ lastIrq'.res = NoReply
          /\ UNCHANGED <<request_buffer, request_queue, hiprio_queue, TEST_COUNTER,
                         panicked, requests, image_of, lastCall, unsynced>>]_vars

\* the handler ran while a request was outstanding and the device had not
\* completed it
C39_EmptyIrqWhileOutstanding ==
    /\ lastIrq.kind = "empty"
    /\ request_queue.avail # {}
    /\ request_queue.used = <<>>
    /\ TEST_COUNTER = 1

\* C40: for every namelen, the number of bytes read_dirent consumes for one
\* directory entry (the 24-byte FuseDirent + namelen + (8 - (namelen mod 8))
\* mod 8) equals fuse_dirent_size for that entry, fuse_rec_align(24 +
\* namelen), the smallest multiple of 8 that is >= 24 + namelen.  read_dirent
\* counts with namelen cast to i32 while fuse_dirent_size takes it as usize: a
\* namelen the cast makes negative has a fuse_dirent_size above every i32.
C40_ConsumesDirentSize ==
    lastIrq.kind = "popped" /\ lastIrq.res.kind = "dirents" =>
        \A i \in 1..Len(lastIrq.res.dataout) :
            LET n == from_le(lastIrq.res.dataout[i].dirent[3])
            IN  /\ FUSE_NAME_OFFSET = size_of(FuseDirent)
                /\ n >= 0
                /\ CounterStep(n) = fuse_dirent_size(n)
                /\ fuse_dirent_size(n) % 8 = 0
                /\ fuse_dirent_size(n) >= size_of(FuseDirent) + n
                /\ fuse_dirent_size(n) < size_of(FuseDirent) + n + 8


\* C34: every chain the device marks as used on request queue 0 is
\* eventually popped and decoded, also when the device completes two or
\* more requests before the handler runs once: while a used chain waits, an
\* interrupt is pending or a handler is about to pop.
C34_UsedChainIsPopped ==
    panicked = "none" /\ request_queue.used # <<>> =>
        \E c \in CPUs : cpu[c].pending \/ cpu[c].irq = "locked"

\* C37: the completion path is deadlock-free: handle_recv_irq always
\* returns, also when its interrupt arrives on a CPU whose thread is inside
\* test_device holding a guard of TEST_COUNTER: the handler never waits for
\* TEST_COUNTER.write() while the thread it interrupted holds a guard.
C37_HandlerReturns ==
    \A c \in CPUs : ~(cpu[c].irq = Caller("irq") /\ cpu[c].pos \in {"tc_write", "tc_read"})
====
